---- MODULE Spec2Model ----
(***************************************************************************)
(* Model of the CodeSense agent orchestration core:                        *)
(*   - MultiProviderAgent._validateAndSanitizeHistory (pure function),     *)
(*   - MultiProviderAgent.runWithMessage (chat loop, one agent session),   *)
(*   - MultiProviderAgent.run (single-shot loop),                          *)
(*   - CodeReviewerAgent.run (single-shot review loop with dry-run gate).  *)
(***************************************************************************)
EXTENDS Integers, Sequences, FiniteSets, TLC

VARIABLES
    entry,              \* which entry point this behaviour executes
    history,            \* this.history (runWithMessage) / History (run)
    pc,                 \* position of the running call
    turn,               \* runWithMessage: let turn
    retryCount,         \* runWithMessage: let retryCount
    calls,              \* result.functionCalls of the response being handled
    idx,                \* index (1-based) of the next call of `calls` to execute
    functionResponses,  \* const functionResponses = [] being filled
    subs,               \* number of submissions (runWithMessage calls) so far
    requests,           \* provider requests issued by the current call
    outcome,            \* how the last call ended
    lastCallback,       \* last text handed to messageCallback by the current call
    odd,                \* count of non-default provider/tool behaviours so far
    mode,               \* CodeReviewerAgent.run: let mode
    fs,                 \* content of the project file on disk, or "absent"
    invocations,        \* tool dispatches of the current cycle: name and outcome
    event,              \* kind of the provider response handled last in this call
    questions,          \* confirmation prompts raised by the review run so far
    apiError,           \* runWithMessage: the exception caught by catch (apiError)
    abortController,    \* this.abortController: "null" or "live"
    stopLog,            \* stopGeneration invocations: where the session was
    provider,           \* host: the provider name kept in the secret store
    hostAgent,          \* host: this._agent (0 is null, else an agent number)
    agents,             \* host: the MultiProviderAgent objects created so far
    handlers,           \* host: the _handleUserMessage invocations so far
    resetMark,          \* host: the handlers started and the agents created before
                        \* the last resetConversation
    webview,            \* webview script: isAIProcessing, whether the stop button
                        \* was ever clicked, whether a system message was shown
    showDiff,           \* tools: the imported diff capability ("null" if absent)
    toolLog,            \* tools: the direct tool calls made so far, with results
    adapterIn,          \* OpenAI adapter check: the value handed to a conversion
    adapterOut,         \* OpenAI adapter check: <<the value it returned>>, or <<>>
    sanIn,              \* sanitizer check: the input history
    sanOut,             \* sanitizer check: output of the first application
    sanOut2,            \* sanitizer check: output of the second application
    sanPc               \* sanitizer check: how many applications were made

vars == <<entry, history, pc, turn, retryCount, calls, idx, functionResponses,
          subs, requests, outcome, lastCallback, odd, mode, fs, invocations,
          event, questions, apiError, abortController, stopLog,
          provider, hostAgent, agents, handlers, resetMark, webview,
          showDiff, toolLog, adapterIn, adapterOut,
          sanIn, sanOut, sanOut2, sanPc>>

stopVars == <<apiError, abortController, stopLog>>

callVars == <<history, pc, turn, retryCount, calls, idx, functionResponses,
              subs, requests, outcome, lastCallback, odd, mode, fs, invocations,
              event, questions>>

hostVars == <<provider, hostAgent, agents, handlers, resetMark, webview>>

toolVars == <<showDiff, toolLog>>

adapterVars == <<adapterIn, adapterOut>>

loopVars == <<entry, history, pc, turn, retryCount, calls, idx, functionResponses,
              subs, requests, outcome, lastCallback, odd, mode, fs, invocations,
              event, questions, stopVars, hostVars, toolVars, adapterVars>>

sanVars == <<sanIn, sanOut, sanOut2, sanPc>>

(***************************************************************************)
(* Program constants                                                       *)
(***************************************************************************)
MAX_HISTORY_LENGTH == 20
MAX_TURNS == 15
MAX_RETRIES == 2

(***************************************************************************)
(* Bounds of the model                                                     *)
(***************************************************************************)
MaxSanLen == 3          \* longest history handed to the sanitizer check
MaxSubmissions == 2     \* submissions per agent session
MaxCalls == 2           \* most tool calls in one provider response
MaxOdd == 1             \* non-default provider/tool/user behaviours per session
                        \* (a response other than one readFile call, a tool
                        \* fault, a text reply that does not end a single-shot
                        \* run, a stopGeneration request)
MaxRunRequests == 16    \* provider requests of one single-shot run
MaxQuestions == 1       \* confirmation prompts of one review run
MaxMessages == 2        \* userMessage events of one host session
MaxHostCycles == 1      \* tool cycles the provider asks for in one host submission
MaxToolCalls == 3       \* direct calls of the file tools on one path
MaxAdapterLen == 2      \* longest contents / tool_calls list handed to the adapter

(***************************************************************************)
(* Conversation turns.  A part is {text}, {functionCall} or                *)
(* {functionResponse}; a turn is {role, parts}.  The flags nul / hasParts  *)
(* describe structurally invalid entries (null entry, missing parts).      *)
(***************************************************************************)
TextPart(t, n) ==
    [type |-> "text", name |-> "-", args |-> "-", text |-> t, sub |-> n, response |-> "-"]

\* { functionCall: fc } with fc = {name, args}
CallPart(fc) ==
    [type |-> "functionCall", name |-> fc.name, args |-> fc.args, text |-> "-", sub |-> 0,
     response |-> "-"]

\* { functionResponse: { name, response: r } }
ResponsePart(name, r) ==
    [type |-> "functionResponse", name |-> name, args |-> "-", text |-> "-", sub |-> 0,
     response |-> r]

\* a functionCall as the provider returns it
Call(name, args) == [name |-> name, args |-> args]

Turn(role, parts) ==
    [nul |-> FALSE, role |-> role, hasParts |-> TRUE, parts |-> parts]

NullTurn == [nul |-> TRUE, role |-> "", hasParts |-> FALSE, parts |-> <<>>]

NoPartsTurn(role) == [nul |-> FALSE, role |-> role, hasParts |-> FALSE, parts |-> <<>>]

\* { role: "user", parts: [{ text: `${userMessage}. Working directory: ...` }] }
UserMessageTurn(n) == Turn("user", <<TextPart("userMessage", n)>>)

\* { role: "model", parts: [{ text }] }
ModelTextTurn(t) == Turn("model", <<TextPart(t, 0)>>)

\* a plausible slip: only the first call of the response is recorded
FunctionCallTurnMutant(cs) == Turn("model", <<CallPart(cs[1])>>)

\* { role: "model", parts: result.functionCalls.map(fc => ({ functionCall: fc })) }
FunctionCallTurn(cs) == Turn("model", [i \in 1..Len(cs) |-> CallPart(cs[i])])

\* a plausible slip: the tool results are pushed as a model turn
FunctionResponseTurnMutant(rs) == Turn("model", rs)

\* { role: "user", parts: functionResponses }
FunctionResponseTurn(rs) == Turn("user", rs)

HasPartOfType(msg, ty) == \E i \in 1..Len(msg.parts) : msg.parts[i].type = ty

(***************************************************************************)
(* Provider exceptions, by what the catch blocks of runWithMessage read:   *)
(*   stateMsg    message includes 'function call turn' or INVALID_ARGUMENT *)
(*   fetchFailed message includes 'fetch failed'                           *)
(*   typeError   name === 'TypeError'                                      *)
(*   aborted     name === 'AbortError' or message includes 'aborted'       *)
(***************************************************************************)
ApiError(st, ff, te, ab) ==
    [raised |-> TRUE, stateMsg |-> st, fetchFailed |-> ff, typeError |-> te, aborted |-> ab]

\* no exception is being handled
NoError ==
    [raised |-> FALSE, stateMsg |-> FALSE, fetchFailed |-> FALSE, typeError |-> FALSE,
     aborted |-> FALSE]

\* the exceptions a provider request can raise
ApiErrors ==
    { ApiError(TRUE, FALSE, FALSE, FALSE), ApiError(TRUE, TRUE, FALSE, FALSE),
      ApiError(FALSE, TRUE, FALSE, FALSE), ApiError(FALSE, FALSE, TRUE, FALSE),
      ApiError(FALSE, TRUE, FALSE, TRUE), ApiError(FALSE, FALSE, FALSE, TRUE),
      ApiError(FALSE, FALSE, FALSE, FALSE) }

\* a plausible slip: the name of the exception is not looked at
ErrorKindMutant(e) ==
    IF e.stateMsg THEN "state"
    ELSE IF e.fetchFailed THEN "network"
    ELSE IF e.aborted THEN "abort" ELSE "other"

\* the branch the exception takes: inner catch (state, network, rethrow apiError),
\* then the outer catch (abort test on the rethrown error)
ErrorKind(e) ==
    IF e.stateMsg THEN "state"
    ELSE IF e.fetchFailed \/ e.typeError THEN "network"
    ELSE IF e.aborted THEN "abort" ELSE "other"

(***************************************************************************)
(* _validateAndSanitizeHistory                                             *)
(***************************************************************************)
\* !msg || !msg.role || !msg.parts || msg.parts.length === 0
IsInvalidMessage(msg) ==
    msg.nul \/ msg.role = "" \/ ~msg.hasParts \/ Len(msg.parts) = 0

\* a plausible slip: only the first part is inspected (content.parts[0]?.functionCall)
HasFunctionCallMutant(msg) ==
    msg.role = "model" /\ Len(msg.parts) > 0 /\ msg.parts[1].type = "functionCall"

\* msg.role === 'model' && msg.parts.some(p => p.functionCall)
HasFunctionCall(msg) == msg.role = "model" /\ HasPartOfType(msg, "functionCall")

\* a plausible slip: any following user turn counts as the response
HasValidResponseMutant(h, i) ==
    /\ i + 1 <= Len(h)
    /\ ~h[i + 1].nul
    /\ h[i + 1].role = "user"

\* nextMsg && nextMsg.role === 'user' && nextMsg.parts.some(p => p.functionResponse)
HasValidResponse(h, i) ==
    /\ i + 1 <= Len(h)
    /\ ~h[i + 1].nul
    /\ h[i + 1].role = "user"
    /\ HasPartOfType(h[i + 1], "functionResponse")

\* nextMsg.parts.some(...) on a user entry without parts raises a TypeError
LookaheadThrows(h, i) ==
    /\ ~IsInvalidMessage(h[i])
    /\ HasFunctionCall(h[i])
    /\ i + 1 <= Len(h)
    /\ ~h[i + 1].nul
    /\ h[i + 1].role = "user"
    /\ ~h[i + 1].hasParts

SanitizeThrows(h) == \E i \in 1..Len(h) : LookaheadThrows(h, i)

RECURSIVE SanitizeScan(_, _)
SanitizeScan(h, i) ==
    IF i > Len(h) THEN <<>>
    ELSE IF IsInvalidMessage(h[i]) THEN SanitizeScan(h, i + 1)
    ELSE IF HasFunctionCall(h[i]) /\ ~HasValidResponse(h, i) THEN SanitizeScan(h, i + 1)
    ELSE <<h[i]>> \o SanitizeScan(h, i + 1)

\* final validation: sanitized.pop() when the last retained turn is a function call
PopTrailingCall(s) ==
    IF Len(s) > 0 /\ HasFunctionCall(s[Len(s)]) THEN SubSeq(s, 1, Len(s) - 1) ELSE s

\* a plausible slip: the sanitizer itself reseeds a history that starts wrongly
EnsureFirstUserReseeds(s) ==
    IF Len(s) > 0 /\ s[1].role # "user" THEN <<UserMessageTurn(1)>> ELSE s

\* a plausible slip: drop only the offending first turn instead of resetting
EnsureFirstUserMutant(s) ==
    IF Len(s) > 0 /\ s[1].role # "user" THEN Tail(s) ELSE s

\* if (sanitized.length > 0 && sanitized[0].role !== 'user') return [];
EnsureFirstUser(s) ==
    IF Len(s) > 0 /\ s[1].role # "user" THEN <<>> ELSE s

validateAndSanitizeHistory(h) ==
    IF Len(h) = 0 THEN <<>>
    ELSE EnsureFirstUser(PopTrailingCall(SanitizeScan(h, 1)))

(***************************************************************************)
(* Sanitizer check: the function applied to bounded input histories.       *)
(***************************************************************************)
SanTurns ==
    { UserMessageTurn(1),
      FunctionResponseTurn(<<ResponsePart("readFile", "result")>>),
      ModelTextTurn("answer"),
      FunctionCallTurn(<<Call("readFile", "a.js")>>),
      Turn("model", <<TextPart("answer", 0), CallPart(Call("readFile", "a.js"))>>),
      NullTurn,
      NoPartsTurn("user"),
      Turn("user", <<>>),
      Turn("", <<TextPart("answer", 0)>>) }

SanInputs == UNION { [1..n -> SanTurns] : n \in 0..MaxSanLen }

Idle ==
    /\ history = <<>> /\ pc = "idle" /\ turn = 0 /\ retryCount = 0
    /\ calls = <<>> /\ idx = 1 /\ functionResponses = <<>>
    /\ subs = 0 /\ requests = 0 /\ outcome = "none" /\ lastCallback = "none"
    /\ odd = 0 /\ mode = "dry-run" /\ fs = "old" /\ invocations = <<>>
    /\ event = "none" /\ questions = 0
    /\ apiError = NoError /\ abortController = "null" /\ stopLog = <<>>
    /\ hostAgent = 0 /\ agents = <<>> /\ handlers = <<>>
    /\ resetMark = [started |-> {}, agents |-> 0]
    /\ webview = [isAIProcessing |-> FALSE, stopClicked |-> FALSE, systemShown |-> FALSE]
    /\ toolLog = <<>>
    /\ adapterIn = <<>> /\ adapterOut = <<>>

InitSan ==
    /\ entry = "_validateAndSanitizeHistory"
    /\ Idle
    /\ provider = "Google Gemini"
    /\ showDiff = "null"
    /\ sanIn \in SanInputs
    /\ sanOut = <<>> /\ sanOut2 = <<>> /\ sanPc = "input"

SanitizeOnce ==
    /\ entry = "_validateAndSanitizeHistory"
    /\ sanPc = "input"
    /\ IF SanitizeThrows(sanIn)
         THEN sanPc' = "threw" /\ UNCHANGED sanOut
         ELSE sanPc' = "once" /\ sanOut' = validateAndSanitizeHistory(sanIn)
    /\ UNCHANGED <<sanIn, sanOut2>>
    /\ UNCHANGED loopVars

SanitizeTwice ==
    /\ entry = "_validateAndSanitizeHistory"
    /\ sanPc = "once"
    /\ IF SanitizeThrows(sanOut)
         THEN sanPc' = "threw" /\ UNCHANGED sanOut2
         ELSE sanPc' = "twice" /\ sanOut2' = validateAndSanitizeHistory(sanOut)
    /\ UNCHANGED <<sanIn, sanOut>>
    /\ UNCHANGED loopVars

NextSan == SanitizeOnce \/ SanitizeTwice

SpecSan == InitSan /\ [][NextSan]_vars

(***************************************************************************)
(* Tools and provider responses                                            *)
(***************************************************************************)
\* toolFunctions: the registry handed to the loops (the tools acting on files)
ToolRegistry == {"readFile", "writeFile", "deleteFile"}

\* names a model may request; "ghostTool" is not in the registry
ToolNames == ToolRegistry \cup {"ghostTool"}

CallLists == UNION { [1..n -> {Call(nm, "a.js") : nm \in ToolNames}] : n \in 1..MaxCalls }

\* the everyday response: one readFile call
DefaultCalls == <<Call("readFile", "a.js")>>

\* what the tool returns when nothing goes wrong, from the state of the disk
ToolReturn(name, disk) ==
    CASE name = "readFile"   -> IF disk = "absent" THEN "errorShape" ELSE "value"
      [] name = "writeFile"  -> "value"
      [] name = "deleteFile" -> IF disk = "absent" THEN "errorShape" ELSE "value"
      [] OTHER               -> "throws"

\* the disk after the tool ran with outcome o
ToolEffect(name, o, disk) ==
    IF o # "value" THEN disk
    ELSE CASE name = "writeFile"  -> "new"
           [] name = "deleteFile" -> "absent"
           [] OTHER               -> disk

\* outcomes of await toolFunctions[name](args): a missing registry entry throws
\* (TypeError); a registered tool returns its value or an error shape, or throws
ToolOutcomes(name, disk, budget) ==
    IF name \notin ToolRegistry THEN {"throws"}
    ELSE {ToolReturn(name, disk)} \cup (IF budget THEN {"errorShape", "throws"} ELSE {})

\* a plausible slip: a thrown tool error is recorded like a returned value
ToolResponsePartMutant(name, o) == ResponsePart(name, "result_value")

\* try { push({functionResponse: {name, response: {result}}}) }
\* catch { push({functionResponse: {name, response: {error}}}) }
ToolResponsePart(name, o) ==
    ResponsePart(name, CASE o = "throws"     -> "error"
                         [] o = "errorShape" -> "result_errorShape"
                         [] OTHER            -> "result_value")

\* a plausible slip: a throwing tool leaves no entry in functionResponses
PushResponseMutant(rs, name, o) ==
    IF o = "throws" THEN rs ELSE Append(rs, ToolResponsePart(name, o))

\* functionResponses.push(...) in the try block or in the catch block
PushResponse(rs, name, o) == Append(rs, ToolResponsePart(name, o))

\* the same try/catch in run
RunPushResponse(rs, name, o) == Append(rs, ToolResponsePart(name, o))

\* classification of a provider exception by the catch blocks
ErrorKinds == {"state", "network", "abort", "other"}

\* result.text() values: "" stands for every text that trims to empty
ModelTexts == {"answer", ""}

(***************************************************************************)
(* MultiProviderAgent.runWithMessage                                       *)
(***************************************************************************)
\* this.history.find(m => m.role === 'user' && m.parts.some(p => p.text))
IsUserTextTurn(msg) == msg.role = "user" /\ HasPartOfType(msg, "text")

LastN(h, n) == IF Len(h) <= n THEN h ELSE SubSeq(h, Len(h) - n + 1, Len(h))

trimHistory(h) ==
    IF Len(h) > MAX_HISTORY_LENGTH
    THEN LET found == {i \in 1..Len(h) : IsUserTextTurn(h[i])}
             recentMessages == LastN(h, MAX_HISTORY_LENGTH - 1)
         IN  validateAndSanitizeHistory(
                 IF found # {}
                 THEN <<h[CHOOSE i \in found : \A j \in found : i <= j]>> \o recentMessages
                 ELSE recentMessages)
    ELSE h

\* a plausible slip: off by one in the loop condition
LoopContinuesMutant(t) == t <= MAX_TURNS

\* while (turn < MAX_TURNS)
LoopContinues(t) == t < MAX_TURNS

\* a plausible slip: off by one in the retry budget
RetryAllowedMutant(r) == r <= MAX_RETRIES

\* if (retryCount < MAX_RETRIES)
RetryAllowed(r) == r < MAX_RETRIES

\* a plausible slip: no finally block
EndCallMutant(how) ==
    /\ pc' = "idle"
    /\ outcome' = how
    /\ turn' = 0
    /\ retryCount' = 0
    /\ calls' = <<>>
    /\ idx' = 1
    /\ functionResponses' = <<>>
    /\ invocations' = <<>>
    /\ abortController' = abortController

\* the call ends (finally: this.abortController = null)
EndCall(how) ==
    /\ pc' = "idle"
    /\ outcome' = how
    /\ turn' = 0
    /\ retryCount' = 0
    /\ calls' = <<>>
    /\ idx' = 1
    /\ functionResponses' = <<>>
    /\ invocations' = <<>>
    /\ abortController' = "null"

\* a plausible slip: the new message replaces the history
PushUserMessageMutant(h, n) == <<UserMessageTurn(n)>>

\* this.history.push({ role: "user", parts: [{ text: userMessage... }] })
PushUserMessage(h, n) == Append(h, UserMessageTurn(n))

\* a plausible slip: the reset keeps the seed turn of the old history
ResetHistoryMutant(h, n) == <<h[1]>>

\* this.history = [{ role: "user", parts: [{ text: userMessage... }] }]
ResetHistory(h, n) == <<UserMessageTurn(n)>>

\* a plausible slip: the sanitized history is sent as it is
ReseedIfEmptyMutant(s, seed) == s

\* if (this.history.length === 0) this.history.push(<the instruction turn>)
ReseedIfEmpty(s, seed) == IF Len(s) = 0 THEN <<seed>> ELSE s

Submit ==
    /\ entry = "runWithMessage"
    /\ pc = "idle"
    /\ subs < MaxSubmissions
    /\ subs' = subs + 1
    /\ history' = PushUserMessage(validateAndSanitizeHistory(history), subs + 1)
    /\ abortController' = "live"
    /\ apiError' = NoError
    /\ turn' = 0
    /\ retryCount' = 0
    /\ requests' = 0
    /\ outcome' = "running"
    /\ lastCallback' = "none"
    /\ event' = "none"
    /\ pc' = "loop"
    /\ UNCHANGED <<entry, calls, idx, functionResponses, odd, mode, questions, fs, invocations>>
    /\ UNCHANGED <<stopLog, hostVars, toolVars, adapterVars, sanVars>>

\* while (turn < MAX_TURNS) { turn++; sanitize; reseed if empty; generateContent(...)
IssueRequest ==
    /\ entry = "runWithMessage"
    /\ pc = "loop"
    /\ LoopContinues(turn)
    /\ turn' = turn + 1
    /\ history' = ReseedIfEmpty(validateAndSanitizeHistory(history), UserMessageTurn(subs))
    /\ requests' = requests + 1
    /\ pc' = "awaitProvider"
    /\ UNCHANGED <<entry, retryCount, calls, idx, functionResponses, subs, outcome,
                   lastCallback, odd, mode, questions, fs, invocations, event>>
    /\ apiError' = NoError
    /\ UNCHANGED <<abortController, stopLog, hostVars, toolVars, adapterVars, sanVars>>

\* the while condition fails: the call returns normally
ExitLoop ==
    /\ entry = "runWithMessage"
    /\ pc = "loop"
    /\ ~LoopContinues(turn)
    /\ EndCall("returned")
    /\ UNCHANGED <<entry, history, subs, requests, lastCallback, odd, mode, questions, fs, event>>
    /\ UNCHANGED <<apiError, stopLog, hostVars, toolVars, adapterVars, sanVars>>

\* if (result.functionCalls?.length > 0) { this.history.push({role: "model", ...})
ReceiveCalls ==
    /\ entry = "runWithMessage"
    /\ pc = "awaitProvider"
    /\ \E cs \in CallLists :
         /\ cs # DefaultCalls => odd < MaxOdd
         /\ odd' = IF cs = DefaultCalls THEN odd ELSE odd + 1
         /\ calls' = cs
         /\ history' = Append(history, FunctionCallTurn(cs))
    /\ retryCount' = 0
    /\ event' = "calls"
    /\ idx' = 1
    /\ functionResponses' = <<>>
    /\ invocations' = <<>>
    /\ pc' = "tools"
    /\ UNCHANGED <<entry, turn, subs, requests, outcome, lastCallback, mode, questions, fs>>
    /\ UNCHANGED <<stopVars, hostVars, toolVars, adapterVars, sanVars>>

\* one iteration of for (const functionCall of result.functionCalls)
InvokeTool ==
    /\ entry = "runWithMessage"
    /\ pc = "tools"
    /\ idx <= Len(calls)
    /\ LET name == calls[idx].name IN
       \E o \in ToolOutcomes(name, fs, odd < MaxOdd) :
         /\ odd' = IF name \in ToolRegistry /\ o # ToolReturn(name, fs) THEN odd + 1 ELSE odd
         /\ fs' = ToolEffect(name, o, fs)
         /\ functionResponses' = PushResponse(functionResponses, name, o)
         /\ invocations' = Append(invocations, [name |-> name, outcome |-> o])
    /\ idx' = idx + 1
    /\ UNCHANGED <<entry, history, pc, turn, retryCount, calls, subs, requests, outcome,
                   lastCallback, mode, questions, event>>
    /\ UNCHANGED <<stopVars, hostVars, toolVars, adapterVars, sanVars>>

\* this.history.push({ role: "user", parts: functionResponses })
AppendResponses ==
    /\ entry = "runWithMessage"
    /\ pc = "tools"
    /\ idx > Len(calls)
    /\ history' = Append(history, FunctionResponseTurn(functionResponses))
    /\ pc' = "trim"
    /\ UNCHANGED <<entry, turn, retryCount, calls, idx, functionResponses, subs, requests,
                   outcome, lastCallback, odd, mode, questions, fs, invocations, event>>
    /\ UNCHANGED <<stopVars, hostVars, toolVars, adapterVars, sanVars>>

\* trimHistory(); at the end of a tool cycle
TrimAfterTools ==
    /\ entry = "runWithMessage"
    /\ pc = "trim"
    /\ history' = trimHistory(history)
    /\ pc' = "loop"
    /\ UNCHANGED <<entry, turn, retryCount, calls, idx, functionResponses, subs, requests,
                   outcome, lastCallback, odd, mode, questions, fs, invocations, event>>
    /\ UNCHANGED <<stopVars, hostVars, toolVars, adapterVars, sanVars>>

\* a plausible slip: the text is pushed without the test for empty text
AppendTextMutant(h, t) == Append(h, ModelTextTurn(t))

\* if (text) { this.history.push({ role: "model", parts: [{ text }] }); ... }
AppendText(h, t) == IF t # "" THEN Append(h, ModelTextTurn(t)) ELSE h

\* else branch: text = text.trim(); if (text) { push; messageCallback(text) } break;
ReceiveText ==
    /\ entry = "runWithMessage"
    /\ pc = "awaitProvider"
    /\ \E t \in ModelTexts :
         /\ history' = AppendText(history, t)
         /\ IF t # ""
            THEN /\ lastCallback' = t
                 /\ event' = "text"
            ELSE /\ UNCHANGED lastCallback
                 /\ event' = "empty"
    /\ EndCall("returned")
    /\ UNCHANGED <<entry, subs, requests, odd, mode, questions, fs>>
    /\ UNCHANGED <<apiError, stopLog, hostVars, toolVars, adapterVars, sanVars>>

\* catch (apiError): state error with retries left resets the history and retries
StateErrorRetry ==
    /\ entry = "runWithMessage"
    /\ pc = "awaitProvider"
    /\ \E e \in ApiErrors :
         /\ ErrorKind(e) = "state"
         /\ apiError' = e
    /\ RetryAllowed(retryCount)
    /\ retryCount' = retryCount + 1
    /\ event' = "state"
    /\ lastCallback' = "Fixing conversation state"
    /\ history' = ResetHistory(history, subs)
    /\ pc' = "loop"
    /\ UNCHANGED <<entry, turn, calls, idx, functionResponses, subs, requests, outcome,
                   odd, mode, questions, fs, invocations>>
    /\ UNCHANGED <<abortController, stopLog, hostVars, toolVars, adapterVars, sanVars>>

\* catch (apiError): the exceptions that leave the loop, and the outer catch
ProviderErrorEnds ==
    /\ entry = "runWithMessage"
    /\ pc = "awaitProvider"
    /\ \E err \in ApiErrors : LET e == ErrorKind(err) IN
         /\ apiError' = err
         /\ event' = e
         /\ CASE e = "state"   -> /\ ~RetryAllowed(retryCount)
                                 /\ EndCall("rejected_state")
                                 /\ UNCHANGED lastCallback
              [] e = "network" -> /\ EndCall("rejected_network")
                                 /\ UNCHANGED lastCallback
              [] e = "abort"   -> /\ EndCall("stopped")
                                 /\ lastCallback' = "Generation stopped."
              [] OTHER         -> /\ EndCall("rejected_other")
                                 /\ UNCHANGED lastCallback
    /\ UNCHANGED <<entry, history, subs, requests, odd, mode, questions, fs>>
    /\ UNCHANGED <<stopLog, hostVars, toolVars, adapterVars, sanVars>>

\* stopGeneration(): if (this.abortController) { abort(); this.abortController = null }
\* It runs while the call is suspended at an await (provider request or tool) or
\* while no call runs.  The controller's signal is handed to no request, so
\* abort() itself reaches nothing.
StopGeneration ==
    /\ entry = "runWithMessage"
    /\ odd < MaxOdd
    /\ odd' = odd + 1
    /\ \/ pc \in {"idle", "awaitProvider"}
       \/ pc = "tools" /\ idx <= Len(calls)
    /\ stopLog' = Append(stopLog, pc)
    /\ abortController' = "null"
    /\ UNCHANGED <<entry, history, pc, turn, retryCount, calls, idx, functionResponses,
                   subs, requests, outcome, lastCallback, mode, questions, fs,
                   invocations, event, apiError>>
    /\ UNCHANGED <<hostVars, toolVars, adapterVars, sanVars>>

InitMsg ==
    /\ entry = "runWithMessage"
    /\ Idle
    /\ provider = "Google Gemini"
    /\ showDiff = "null"
    /\ sanIn = <<>> /\ sanOut = <<>> /\ sanOut2 = <<>> /\ sanPc = "input"

NextMsg ==
    \/ Submit
    \/ IssueRequest
    \/ ExitLoop
    \/ ReceiveCalls
    \/ InvokeTool
    \/ AppendResponses
    \/ TrimAfterTools
    \/ ReceiveText
    \/ StateErrorRetry
    \/ ProviderErrorEnds
    \/ StopGeneration

SpecMsg == InitMsg /\ [][NextMsg]_vars

(***************************************************************************)
(* MultiProviderAgent.run (single-shot loop; History is a local array)     *)
(***************************************************************************)
\* const initialPrompt = { role: "user", parts: [{ text: `Review and improve ...` }] }
initialPrompt == Turn("user", <<TextPart("initialPrompt", 0)>>)

\* run's trimHistory: History = [initialPrompt, ...History.slice(-(MAX_HISTORY_LENGTH - 1))]
runTrimHistory(h) ==
    IF Len(h) > MAX_HISTORY_LENGTH
    THEN <<initialPrompt>> \o LastN(h, MAX_HISTORY_LENGTH - 1)
    ELSE h

\* const History = [initialPrompt];
RunStart ==
    /\ entry = "run"
    /\ pc = "idle"
    /\ outcome = "none"
    /\ history' = <<initialPrompt>>
    /\ outcome' = "running"
    /\ requests' = 0
    /\ pc' = "loop"
    /\ UNCHANGED <<entry, turn, retryCount, calls, idx, functionResponses, subs,
                   lastCallback, odd, mode, questions, fs, invocations, event>>
    /\ UNCHANGED <<stopVars, hostVars, toolVars, adapterVars, sanVars>>

\* while (true) { sanitize; History = sanitized or [initialPrompt]; generateContent(...)
RunIssueRequest ==
    /\ entry = "run"
    /\ pc = "loop"
    /\ requests < MaxRunRequests
    /\ history' = ReseedIfEmpty(validateAndSanitizeHistory(history), initialPrompt)
    /\ requests' = requests + 1
    /\ pc' = "awaitProvider"
    /\ UNCHANGED <<entry, turn, retryCount, calls, idx, functionResponses, subs, outcome,
                   lastCallback, odd, mode, questions, fs, invocations, event>>
    /\ UNCHANGED <<stopVars, hostVars, toolVars, adapterVars, sanVars>>

\* if (result.functionCalls?.length > 0) { History.push({ role: "model", ... })
RunReceiveCalls ==
    /\ entry = "run"
    /\ pc = "awaitProvider"
    /\ \E cs \in CallLists :
         /\ cs # DefaultCalls => odd < MaxOdd
         /\ odd' = IF cs = DefaultCalls THEN odd ELSE odd + 1
         /\ calls' = cs
         /\ history' = Append(history, FunctionCallTurn(cs))
    /\ event' = "calls"
    /\ idx' = 1
    /\ functionResponses' = <<>>
    /\ invocations' = <<>>
    /\ pc' = "tools"
    /\ UNCHANGED <<entry, turn, retryCount, subs, requests, outcome, lastCallback, mode, questions, fs>>
    /\ UNCHANGED <<stopVars, hostVars, toolVars, adapterVars, sanVars>>

\* one iteration of for (const functionCall of result.functionCalls)
RunInvokeTool ==
    /\ entry = "run"
    /\ pc = "tools"
    /\ idx <= Len(calls)
    /\ LET name == calls[idx].name IN
       \E o \in ToolOutcomes(name, fs, odd < MaxOdd) :
         /\ odd' = IF name \in ToolRegistry /\ o # ToolReturn(name, fs) THEN odd + 1 ELSE odd
         /\ fs' = ToolEffect(name, o, fs)
         /\ functionResponses' = RunPushResponse(functionResponses, name, o)
         /\ invocations' = Append(invocations, [name |-> name, outcome |-> o])
    /\ idx' = idx + 1
    /\ UNCHANGED <<entry, history, pc, turn, retryCount, calls, subs, requests, outcome,
                   lastCallback, mode, questions, event>>
    /\ UNCHANGED <<stopVars, hostVars, toolVars, adapterVars, sanVars>>

\* History.push({ role: "user", parts: functionResponses });
RunAppendResponses ==
    /\ entry = "run"
    /\ pc = "tools"
    /\ idx > Len(calls)
    /\ history' = Append(history, FunctionResponseTurn(functionResponses))
    /\ pc' = "trim"
    /\ UNCHANGED <<entry, turn, retryCount, calls, idx, functionResponses, subs, requests,
                   outcome, lastCallback, odd, mode, questions, fs, invocations, event>>
    /\ UNCHANGED <<stopVars, hostVars, toolVars, adapterVars, sanVars>>

\* trimHistory(); at the end of the loop body
RunTrim ==
    /\ entry = "run"
    /\ pc = "trim"
    /\ history' = runTrimHistory(history)
    /\ pc' = "loop"
    /\ UNCHANGED <<entry, turn, retryCount, calls, idx, functionResponses, subs, requests,
                   outcome, lastCallback, odd, mode, questions, fs, invocations, event>>
    /\ UNCHANGED <<stopVars, hostVars, toolVars, adapterVars, sanVars>>

\* else branch: if (!text) break; History.push({ role: "model", parts: [{ text }] });
RunReceiveText ==
    /\ entry = "run"
    /\ pc = "awaitProvider"
    /\ \E t \in ModelTexts :
         IF t # ""
         THEN /\ odd < MaxOdd
              /\ odd' = odd + 1
              /\ history' = Append(history, ModelTextTurn(t))
              /\ event' = "text"
              /\ pc' = "trim"
              /\ UNCHANGED <<outcome, calls, idx, functionResponses, invocations>>
         ELSE /\ event' = "empty"
              /\ pc' = "idle"
              /\ outcome' = "returned"
              /\ calls' = <<>> /\ idx' = 1 /\ functionResponses' = <<>> /\ invocations' = <<>>
              /\ history' = <<>>
              /\ UNCHANGED odd
    /\ UNCHANGED <<entry, turn, retryCount, subs, requests, lastCallback, mode, questions, fs>>
    /\ UNCHANGED <<stopVars, hostVars, toolVars, adapterVars, sanVars>>

\* catch (apiError): a state error resets History to [initialPrompt] and continues
RunStateErrorRetry ==
    /\ entry = "run"
    /\ pc = "awaitProvider"
    /\ history' = <<initialPrompt>>
    /\ event' = "state"
    /\ pc' = "loop"
    /\ UNCHANGED <<entry, turn, retryCount, calls, idx, functionResponses, subs, requests,
                   outcome, lastCallback, odd, mode, questions, fs, invocations>>
    /\ UNCHANGED <<stopVars, hostVars, toolVars, adapterVars, sanVars>>

\* catch (apiError): throw apiError; for every other exception (the local
\* History is gone with the call)
RunProviderErrorEnds ==
    /\ entry = "run"
    /\ pc = "awaitProvider"
    /\ \E e \in ErrorKinds \ {"state"} :
         /\ event' = e
         /\ outcome' = "rejected_other"
    /\ pc' = "idle"
    /\ history' = <<>>
    /\ calls' = <<>> /\ idx' = 1 /\ functionResponses' = <<>> /\ invocations' = <<>>
    /\ UNCHANGED <<entry, turn, retryCount, subs, requests, lastCallback, odd, mode, questions, fs>>
    /\ UNCHANGED <<stopVars, hostVars, toolVars, adapterVars, sanVars>>

InitRun ==
    /\ entry = "run"
    /\ Idle
    /\ provider = "Google Gemini"
    /\ showDiff = "null"
    /\ sanIn = <<>> /\ sanOut = <<>> /\ sanOut2 = <<>> /\ sanPc = "input"

NextRun ==
    \/ RunStart
    \/ RunIssueRequest
    \/ RunReceiveCalls
    \/ RunInvokeTool
    \/ RunAppendResponses
    \/ RunTrim
    \/ RunReceiveText
    \/ RunStateErrorRetry
    \/ RunProviderErrorEnds

SpecRun == InitRun /\ [][NextRun]_vars

(***************************************************************************)
(* The head of both loops, applied to any history the agent may hold when  *)
(* the loop comes round: sanitize, reseed, request.                        *)
(***************************************************************************)
InitLoopHead ==
    /\ entry \in {"runWithMessage", "run"}
    /\ history \in {h \in SanInputs : ~SanitizeThrows(h)}
    /\ pc = "loop" /\ turn = 0 /\ retryCount = 0
    /\ calls = <<>> /\ idx = 1 /\ functionResponses = <<>>
    /\ subs = 2 /\ requests = 0 /\ outcome = "running" /\ lastCallback = "none"
    /\ odd = 0 /\ mode = "dry-run" /\ fs = "old" /\ invocations = <<>>
    /\ event = "none" /\ questions = 0
    /\ apiError = NoError /\ stopLog = <<>>
    /\ abortController = IF entry = "runWithMessage" THEN "live" ELSE "null"
    /\ hostAgent = 0 /\ agents = <<>> /\ handlers = <<>>
    /\ resetMark = [started |-> {}, agents |-> 0]
    /\ webview = [isAIProcessing |-> FALSE, stopClicked |-> FALSE, systemShown |-> FALSE]
    /\ provider = "Google Gemini"
    /\ showDiff = "null" /\ toolLog = <<>>
    /\ adapterIn = <<>> /\ adapterOut = <<>>
    /\ sanIn = <<>> /\ sanOut = <<>> /\ sanOut2 = <<>> /\ sanPc = "input"

NextLoopHead == IssueRequest \/ RunIssueRequest

SpecLoopHead == InitLoopHead /\ [][NextLoopHead]_vars

(***************************************************************************)
(* Both tool-calling loops of MultiProviderAgent                           *)
(***************************************************************************)
InitLoops == InitMsg \/ InitRun

NextLoops == NextMsg \/ NextRun

SpecLoops == InitLoops /\ [][NextLoops]_vars

(***************************************************************************)
(* CodeReviewerAgent.run (single-shot review loop with the dry-run gate)   *)
(***************************************************************************)
\* a plausible slip: deleteFile left out of the destructive list
isDestructiveMutant(name) == name \in {"writeFile"}

\* const isDestructive = ["writeFile", "deleteFile"].includes(name);
isDestructive(name) == name \in {"writeFile", "deleteFile"}

\* text replies by what the loop tests: a confirmation request (contains "Yes",
\* "?" or "apply these fixes"), a completion phrase, both, neither, no text
ReviewTexts == {"question", "complete", "completeQuestion", "plain", ""}

\* a plausible slip: a text with a completion phrase is never taken as a prompt
LooksLikePromptMutant(t) == t = "question"

\* text.includes("Yes") || text.toLowerCase().includes("apply these fixes") ||
\* text.includes("?")
LooksLikePrompt(t) == t \in {"question", "completeQuestion"}

\* text.toLowerCase().includes("code review complete" / "all fixes applied" / "verified")
HasCompletionPhrase(t) == t \in {"complete", "completeQuestion"}

\* a plausible slip: the completion phrase stops the loop in every mode
StopsOnCompletionMutant(t, m) == HasCompletionPhrase(t)

\* else if (completion phrase) { if (mode === "apply-fix") break; }
StopsOnCompletion(t, m) == HasCompletionPhrase(t) /\ m = "apply-fix"

\* a plausible slip: the run starts with the gate open
InitialModeMutant == "apply-fix"

\* let mode = "dry-run";
InitialMode == "dry-run"

\* { functionResponse: { name, response: { error: "Action blocked: User confirmation required." } } }
BlockedResponsePart(name) == ResponsePart(name, "error_confirmation_required")

\* CodeReviewerAgent.run's trimHistory
reviewTrimHistory(h) ==
    IF Len(h) > MAX_HISTORY_LENGTH
    THEN <<initialPrompt>> \o LastN(h, MAX_HISTORY_LENGTH - 1)
    ELSE h

\* the run is over: History and mode are locals of the call
ReviewEnd(how) ==
    /\ pc' = "idle"
    /\ outcome' = how
    /\ history' = <<>>
    /\ calls' = <<>>
    /\ idx' = 1
    /\ invocations' = <<>>

\* const History = [initialPrompt]; let mode = "dry-run";
ReviewStart ==
    /\ entry = "CodeReviewerAgent.run"
    /\ pc = "idle"
    /\ outcome = "none"
    /\ history' = <<initialPrompt>>
    /\ mode' = InitialMode
    /\ outcome' = "running"
    /\ requests' = 0
    /\ pc' = "loop"
    /\ UNCHANGED <<entry, turn, retryCount, calls, idx, functionResponses, subs,
                   lastCallback, odd, fs, invocations, event, questions>>
    /\ UNCHANGED <<stopVars, hostVars, toolVars, adapterVars, sanVars>>

\* while (true) { const result = await this.ai.models.generateContent(...)
ReviewIssueRequest ==
    /\ entry = "CodeReviewerAgent.run"
    /\ pc = "loop"
    /\ requests < MaxRunRequests
    /\ requests' = requests + 1
    /\ pc' = "awaitProvider"
    /\ UNCHANGED <<entry, history, turn, retryCount, calls, idx, functionResponses, subs,
                   outcome, lastCallback, odd, mode, questions, fs, invocations, event>>
    /\ UNCHANGED <<stopVars, hostVars, toolVars, adapterVars, sanVars>>

\* if (result.functionCalls?.length > 0) { let hasDestructiveAction = false; for ...
ReviewReceiveCalls ==
    /\ entry = "CodeReviewerAgent.run"
    /\ pc = "awaitProvider"
    /\ \E cs \in CallLists :
         /\ cs # DefaultCalls => odd < MaxOdd
         /\ odd' = IF cs = DefaultCalls THEN odd ELSE odd + 1
         /\ calls' = cs
    /\ event' = "calls"
    /\ idx' = 1
    /\ invocations' = <<>>
    /\ pc' = "tools"
    /\ UNCHANGED <<entry, history, turn, retryCount, functionResponses, subs, requests,
                   outcome, lastCallback, mode, questions, fs>>
    /\ UNCHANGED <<stopVars, hostVars, toolVars, adapterVars, sanVars>>

\* if (isDestructive && mode === "dry-run") { push call; push error result; continue; }
ReviewBlockTool ==
    /\ entry = "CodeReviewerAgent.run"
    /\ pc = "tools"
    /\ idx <= Len(calls)
    /\ isDestructive(calls[idx].name) /\ mode = "dry-run"
    /\ history' = history \o
          << FunctionCallTurn(<<calls[idx]>>),
             FunctionResponseTurn(<<BlockedResponsePart(calls[idx].name)>>) >>
    /\ idx' = idx + 1
    /\ UNCHANGED <<entry, pc, turn, retryCount, calls, functionResponses, subs, requests,
                   outcome, lastCallback, odd, mode, questions, fs, invocations, event>>
    /\ UNCHANGED <<stopVars, hostVars, toolVars, adapterVars, sanVars>>

\* const toolResponse = await toolFunctions[name](args); push call; push result
\* (no try/catch: a throwing tool rejects the run)
ReviewInvokeTool ==
    /\ entry = "CodeReviewerAgent.run"
    /\ pc = "tools"
    /\ idx <= Len(calls)
    /\ ~(isDestructive(calls[idx].name) /\ mode = "dry-run")
    /\ LET name == calls[idx].name IN
       \E o \in ToolOutcomes(name, fs, odd < MaxOdd) :
         /\ odd' = IF name \in ToolRegistry /\ o # ToolReturn(name, fs) THEN odd + 1 ELSE odd
         /\ fs' = ToolEffect(name, o, fs)
         /\ IF o = "throws"
            THEN /\ ReviewEnd("rejected_tool")
                 /\ UNCHANGED mode
            ELSE /\ invocations' = Append(invocations, [name |-> name, outcome |-> o])
                 /\ history' = history \o
                       << FunctionCallTurn(<<calls[idx]>>),
                          FunctionResponseTurn(<<ToolResponsePart(name, o)>>) >>
                 /\ idx' = idx + 1
                 /\ UNCHANGED <<pc, outcome, calls, mode, questions>>
    /\ UNCHANGED <<entry, turn, retryCount, functionResponses, subs, requests,
                   lastCallback, event, questions>>
    /\ UNCHANGED <<stopVars, hostVars, toolVars, adapterVars, sanVars>>

\* the for loop is over: trimHistory();
ReviewTrimAfterTools ==
    /\ entry = "CodeReviewerAgent.run"
    /\ pc = "tools"
    /\ idx > Len(calls)
    /\ history' = reviewTrimHistory(history)
    /\ pc' = "loop"
    /\ UNCHANGED <<entry, turn, retryCount, calls, idx, functionResponses, subs, requests,
                   outcome, lastCallback, odd, mode, questions, fs, invocations, event>>
    /\ UNCHANGED <<stopVars, hostVars, toolVars, adapterVars, sanVars>>

\* the text branch up to the await of interactionCallback, or to the end of the body
ReviewReceiveText ==
    /\ entry = "CodeReviewerAgent.run"
    /\ pc = "awaitProvider"
    /\ \E t \in ReviewTexts :
         /\ event' = IF t = "" THEN "empty" ELSE t
         /\ CASE t = "" ->
                   /\ ReviewEnd("returned")
                   /\ UNCHANGED <<odd, lastCallback, questions>>
              [] t # "" /\ LooksLikePrompt(t) ->
                   /\ questions < MaxQuestions
                   /\ questions' = questions + 1
                   /\ lastCallback' = t
                   /\ pc' = "awaitAnswer"
                   /\ UNCHANGED <<history, outcome, calls, idx, invocations, odd>>
              [] t # "" /\ ~LooksLikePrompt(t) /\ StopsOnCompletion(t, mode) ->
                   /\ ReviewEnd("returned")
                   /\ UNCHANGED <<odd, lastCallback, questions>>
              [] OTHER ->
                   /\ odd < MaxOdd
                   /\ odd' = odd + 1
                   /\ history' = reviewTrimHistory(Append(history, ModelTextTurn(t)))
                   /\ pc' = "loop"
                   /\ UNCHANGED <<outcome, calls, idx, invocations, lastCallback, questions>>
    /\ UNCHANGED <<entry, turn, retryCount, functionResponses, subs, requests, mode, fs>>
    /\ UNCHANGED <<stopVars, hostVars, toolVars, adapterVars, sanVars>>

\* const answer = await interactionCallback(text); and the rest of the loop body
ReviewAnswer ==
    /\ entry = "CodeReviewerAgent.run"
    /\ pc = "awaitAnswer"
    /\ \E answer \in BOOLEAN :
         IF answer
         THEN /\ mode' = "apply-fix"
              /\ history' = reviewTrimHistory(
                     history \o << Turn("user", <<TextPart("YES. Proceed", 0)>>),
                                   ModelTextTurn(lastCallback) >>)
              /\ pc' = "loop"
              /\ UNCHANGED <<outcome, calls, idx, invocations>>
         ELSE /\ ReviewEnd("returned")
              /\ UNCHANGED mode
    /\ UNCHANGED <<entry, turn, retryCount, functionResponses, subs, requests,
                   lastCallback, odd, fs, event, questions>>
    /\ UNCHANGED <<stopVars, hostVars, toolVars, adapterVars, sanVars>>

\* generateContent is awaited without a try/catch: every exception rejects the run
ReviewProviderError ==
    /\ entry = "CodeReviewerAgent.run"
    /\ pc = "awaitProvider"
    /\ \E e \in ErrorKinds : event' = e
    /\ ReviewEnd("rejected_other")
    /\ UNCHANGED <<entry, turn, retryCount, functionResponses, subs, requests,
                   lastCallback, odd, mode, questions, fs>>
    /\ UNCHANGED <<stopVars, hostVars, toolVars, adapterVars, sanVars>>

InitReview ==
    /\ entry = "CodeReviewerAgent.run"
    /\ Idle
    /\ provider = "Google Gemini"
    /\ showDiff = "null"
    /\ sanIn = <<>> /\ sanOut = <<>> /\ sanOut2 = <<>> /\ sanPc = "input"

NextReview ==
    \/ ReviewStart
    \/ ReviewIssueRequest
    \/ ReviewReceiveCalls
    \/ ReviewBlockTool
    \/ ReviewInvokeTool
    \/ ReviewTrimAfterTools
    \/ ReviewReceiveText
    \/ ReviewAnswer
    \/ ReviewProviderError

SpecReview == InitReview /\ [][NextReview]_vars

(***************************************************************************)
(* Both single-shot loops                                                  *)
(***************************************************************************)
InitSingleShot == InitRun \/ InitReview

NextSingleShot == NextRun \/ NextReview

SpecSingleShot == InitSingleShot /\ [][NextSingleShot]_vars

(***************************************************************************)
(* ChatViewProvider: the extension host of one chat view.  Every            *)
(* userMessage event starts an invocation of _handleUserMessage; an         *)
(* invocation runs until its next await, where other events are handled.    *)
(***************************************************************************)
Providers == {"Google Gemini", "OpenAI", "GPT via Groq", "Anthropic Claude", "Groq", "Mistral"}

\* the keywords the lower-cased provider name contains
Keywords(p) ==
    CASE p = "Google Gemini"    -> {"google", "gemini"}
      [] p = "OpenAI"           -> {"openai"}
      [] p = "GPT via Groq"     -> {"gpt", "groq"}
      [] p = "Anthropic Claude" -> {"anthropic", "claude"}
      [] p = "Groq"             -> {"groq"}
      [] OTHER                  -> {}

\* normalizedProvider.includes(kw)
Includes(p, kw) == kw \in Keywords(p)

\* a plausible slip: the Anthropic branch configures a model and does not throw
InitializeClientMutant(p) ==
    IF Includes(p, "gemini") \/ Includes(p, "google") THEN "ok"
    ELSE IF Includes(p, "openai") \/ Includes(p, "gpt") THEN "ok"
    ELSE IF Includes(p, "anthropic") \/ Includes(p, "claude") THEN "ok"
    ELSE IF Includes(p, "groq") \/ Includes(p, "llama") THEN "throws_notImplemented"
    ELSE "throws_unsupported"

\* constructor -> _initializeClient(): which branch the provider name takes
InitializeClient(p) ==
    IF Includes(p, "gemini") \/ Includes(p, "google") THEN "ok"
    ELSE IF Includes(p, "openai") \/ Includes(p, "gpt") THEN "ok"
    ELSE IF Includes(p, "anthropic") \/ Includes(p, "claude") THEN "throws_notImplemented"
    ELSE IF Includes(p, "groq") \/ Includes(p, "llama") THEN "throws_notImplemented"
    ELSE "throws_unsupported"

\* the provider test at the head of runWithMessage
RunAccepts(p) ==
    Includes(p, "gemini") \/ Includes(p, "google") \/ Includes(p, "openai") \/ Includes(p, "gpt")

\* the texts the catch block of _handleUserMessage looks for in error.message:
\*   network         'Network connection failed' / 'fetch failed'
\*   stateRecovery   'Invalid conversation state' / 'could not be recovered'
\*   apiKey          'API key' / 'PERMISSION_DENIED'
\*   invalidArgument 'INVALID_ARGUMENT' / 'function call'
HostPatterns == {"network", "stateRecovery", "apiKey", "invalidArgument"}

\* the messages of rethrown provider exceptions that are tried: none of the
\* texts, one of them, or one of a retaining and one of a dropping branch
RethrownPatterns ==
    {{}} \cup {{pat} : pat \in HostPatterns}
         \cup {{"network", "stateRecovery"}, {"apiKey", "invalidArgument"}}

\* which of the texts the message of a rejection of runWithMessage contains:
\* the two messages runWithMessage writes itself, or whatever a rethrown
\* provider exception says
RejectionPatterns(e) ==
    CASE e = "state"   -> {{"stateRecovery"}}
      [] e = "network" -> {{"network"}}
      [] e = "other"   -> RethrownPatterns
      [] OTHER         -> {{}}

\* the if / else-if chain of the catch block
HostErrorClass(pats) ==
    IF "network" \in pats THEN "network"
    ELSE IF "stateRecovery" \in pats THEN "state"
    ELSE IF "apiKey" \in pats THEN "apiKey"
    ELSE IF "invalidArgument" \in pats THEN "invalid"
    ELSE "other"

\* a plausible slip: only the state-recovery branch resets the agent
DropsAgentMutant(class) == class = "state"

\* the branches that execute this._agent = null
DropsAgent(class) == class \in {"state", "invalid"}

\* what the catch and finally blocks post for a rejection
ErrorPosts(class) ==
    (IF class = "apiKey" THEN <<"requestApiKey">> ELSE <<>>)
       \o <<"aiResponse_error", "aiThinking_false">>

\* the message types on which the webview script resets its buttons
ResetsButtons(m) ==
    m \in {"aiResponse_text", "aiResponse_retry", "aiResponse_stopped",
           "aiResponse_error", "aiResponse_loadError", "systemMessage"}

\* the webview after it has handled the posted messages
Delivered(w, msgs) ==
    [w EXCEPT !.isAIProcessing = @ /\ ~\E k \in 1..Len(msgs) : ResetsButtons(msgs[k]),
              !.systemShown = @ \/ \E k \in 1..Len(msgs) : msgs[k] = "systemMessage"]

\* a _handleUserMessage invocation waiting for the secret store
NewHandler ==
    [pc |-> "secrets", agent |-> 0, turn |-> 0, retryCount |-> 0, calls |-> <<>>,
     idx |-> 1, functionResponses |-> <<>>, requests |-> 0, result |-> "none",
     patterns |-> {}, posts |-> <<>>]

\* a MultiProviderAgent as the constructor leaves it (history not yet defined)
NewAgent(p) == [history |-> <<>>, abortController |-> "null", creator |-> p]

\* a plausible slip: the reset keeps the agent
DiscardAgentMutant(a) == a

\* this._agent = null
DiscardAgent(a) == 0

\* head of the while loop of runWithMessage for invocation p: either the next
\* request is issued on the sanitized (or reseeded) history, or the loop ends
\* and the call returns (finally of _handleUserMessage: aiThinking inactive)
LoopHead(hr, hist, p) ==
    IF LoopContinues(hr.turn)
    THEN [h |-> [hr EXCEPT !.turn = @ + 1, !.requests = @ + 1, !.pc = "awaitProvider"],
          history |-> ReseedIfEmpty(validateAndSanitizeHistory(hist), UserMessageTurn(p)),
          posts |-> <<>>,
          ended |-> FALSE]
    ELSE [h |-> [hr EXCEPT !.pc = "done", !.result = "returned"],
          history |-> hist,
          posts |-> <<"aiThinking_false">>,
          ended |-> TRUE]

\* state of agent a after a step of a call that left history hist
AgentAfter(a, hist, ended) ==
    [agents EXCEPT ![a] = [@ EXCEPT !.history = hist,
                                    !.abortController = IF ended THEN "null" ELSE @]]

\* invocation p becomes hr and posts msgs, which the webview handles
HandlerPosts(p, hr, msgs) ==
    /\ handlers' = [handlers EXCEPT ![p] = [hr EXCEPT !.posts = @ \o msgs]]
    /\ webview' = Delivered(webview, msgs)

\* webview: sendMessage() (send button or Enter) -> host: { type: 'userMessage' };
\* the handler awaits the secret store
UserMessage ==
    /\ entry = "host"
    /\ Len(handlers) < MaxMessages
    /\ handlers' = Append(handlers, NewHandler)
    /\ webview' = [webview EXCEPT !.isAIProcessing = TRUE]
    /\ UNCHANGED <<provider, hostAgent, agents, resetMark>>
    /\ UNCHANGED <<entry, callVars, stopVars, toolVars, adapterVars, sanVars>>

\* _handleUserMessage after the secrets (an API key is stored and a workspace
\* folder is open): create the agent if there is none, then runWithMessage up
\* to its first provider request
HandlerStart ==
    /\ entry = "host"
    /\ \E p \in 1..Len(handlers) :
         /\ handlers[p].pc = "secrets"
         /\ IF hostAgent = 0 /\ InitializeClient(provider) # "ok"
            THEN /\ HandlerPosts(p, [handlers[p] EXCEPT !.pc = "done", !.result = "loadError"],
                                 <<"aiResponse_loadError">>)
                 /\ UNCHANGED <<hostAgent, agents>>
            ELSE LET fresh == hostAgent = 0
                     a == IF fresh THEN Len(agents) + 1 ELSE hostAgent
                     before == IF fresh THEN Append(agents, NewAgent(p)) ELSE agents
                 IN  /\ hostAgent' = a
                     /\ IF ~RunAccepts(provider)
                        THEN /\ agents' = before
                             /\ HandlerPosts(p, [handlers[p] EXCEPT !.pc = "done",
                                                                    !.agent = a,
                                                                    !.result = "error_other"],
                                             <<"aiThinking_true">> \o ErrorPosts("other"))
                        ELSE LET h1 == PushUserMessage(
                                           validateAndSanitizeHistory(before[a].history), p)
                                 lh == LoopHead([handlers[p] EXCEPT !.agent = a], h1, p)
                             IN  /\ agents' = [before EXCEPT ![a] =
                                                  [@ EXCEPT !.history = lh.history,
                                                            !.abortController = "live"]]
                                 /\ HandlerPosts(p, lh.h, <<"aiThinking_true">> \o lh.posts)
    /\ UNCHANGED <<provider, resetMark>>
    /\ UNCHANGED <<entry, callVars, stopVars, toolVars, adapterVars, sanVars>>

\* a response with tool calls: push the call turn, dispatch the first tool
HostReceiveCalls ==
    /\ entry = "host"
    /\ \E p \in 1..Len(handlers) :
         LET hr == handlers[p]  a == hr.agent IN
         /\ hr.pc = "awaitProvider"
         /\ hr.requests <= MaxHostCycles
         /\ agents' = AgentAfter(a, Append(agents[a].history, FunctionCallTurn(DefaultCalls)),
                                 FALSE)
         /\ handlers' = [handlers EXCEPT ![p] =
                            [hr EXCEPT !.pc = "awaitTool", !.retryCount = 0,
                                       !.calls = DefaultCalls, !.idx = 1,
                                       !.functionResponses = <<>>]]
    /\ UNCHANGED <<provider, hostAgent, resetMark, webview>>
    /\ UNCHANGED <<entry, callVars, stopVars, toolVars, adapterVars, sanVars>>

\* a tool returns: record its result; after the last one push the results turn,
\* trim, and go to the head of the loop
HostToolDone ==
    /\ entry = "host"
    /\ \E p \in 1..Len(handlers) :
         LET hr == handlers[p]
             a == hr.agent
             name == hr.calls[hr.idx].name
             rs == PushResponse(hr.functionResponses, name, ToolReturn(name, fs))
         IN
         /\ hr.pc = "awaitTool"
         /\ IF hr.idx < Len(hr.calls)
            THEN /\ handlers' = [handlers EXCEPT ![p] =
                                    [hr EXCEPT !.idx = @ + 1, !.functionResponses = rs]]
                 /\ UNCHANGED <<agents, webview>>
            ELSE LET h1 == trimHistory(Append(agents[a].history, FunctionResponseTurn(rs)))
                     lh == LoopHead([hr EXCEPT !.functionResponses = rs], h1, p)
                 IN  /\ agents' = AgentAfter(a, lh.history, lh.ended)
                     /\ HandlerPosts(p, lh.h, lh.posts)
    /\ UNCHANGED <<provider, hostAgent, resetMark>>
    /\ UNCHANGED <<entry, callVars, stopVars, toolVars, adapterVars, sanVars>>

\* a text response: push it and hand it to messageCallback if not empty, break,
\* finally
HostReceiveText ==
    /\ entry = "host"
    /\ \E p \in 1..Len(handlers), t \in ModelTexts :
         LET hr == handlers[p]  a == hr.agent IN
         /\ hr.pc = "awaitProvider"
         /\ agents' = AgentAfter(a, IF t # "" THEN Append(agents[a].history, ModelTextTurn(t))
                                              ELSE agents[a].history, TRUE)
         /\ HandlerPosts(p, [hr EXCEPT !.pc = "done", !.result = "returned"],
                         (IF t # "" THEN <<"aiResponse_text">> ELSE <<>>)
                            \o <<"aiThinking_false">>)
    /\ UNCHANGED <<provider, hostAgent, resetMark>>
    /\ UNCHANGED <<entry, callVars, stopVars, toolVars, adapterVars, sanVars>>

\* the request throws: retry after a state error (messageCallback tells the
\* user), else the call ends; an abort is reported by messageCallback and the
\* call returns; every other exception rejects the call and the catch block of
\* _handleUserMessage reports it (and may drop the agent)
HostProviderError ==
    /\ entry = "host"
    /\ \E p \in 1..Len(handlers), err \in ApiErrors :
         LET hr == handlers[p]
             a == hr.agent
             e == ErrorKind(err)
         IN
         /\ hr.pc = "awaitProvider"
         /\ IF e = "state" /\ RetryAllowed(hr.retryCount)
            THEN LET lh == LoopHead([hr EXCEPT !.retryCount = @ + 1],
                                    ResetHistory(agents[a].history, p), p)
                 IN  /\ agents' = AgentAfter(a, lh.history, lh.ended)
                     /\ HandlerPosts(p, lh.h, <<"aiResponse_retry">> \o lh.posts)
                     /\ UNCHANGED hostAgent
            ELSE IF e = "abort"
            THEN /\ agents' = AgentAfter(a, agents[a].history, TRUE)
                 /\ HandlerPosts(p, [hr EXCEPT !.pc = "done", !.result = "stopped"],
                                 <<"aiResponse_stopped", "aiThinking_false">>)
                 /\ UNCHANGED hostAgent
            ELSE \E pats \in RejectionPatterns(e) :
                   LET class == HostErrorClass(pats) IN
                   /\ agents' = AgentAfter(a, agents[a].history, TRUE)
                   /\ HandlerPosts(p, [hr EXCEPT !.pc = "done",
                                                 !.patterns = pats,
                                                 !.result = CASE e = "state"   -> "error_state"
                                                              [] e = "network" -> "error_network"
                                                              [] OTHER         -> "error_other"],
                                   ErrorPosts(class))
                   /\ hostAgent' = IF DropsAgent(class) THEN 0 ELSE hostAgent
    /\ UNCHANGED <<provider, resetMark>>
    /\ UNCHANGED <<entry, callVars, stopVars, toolVars, adapterVars, sanVars>>

\* webview: the stop button (shown while isAIProcessing) -> host:
\* { type: 'stopGeneration' }
HostStop ==
    /\ entry = "host"
    /\ webview.isAIProcessing
    /\ webview' = [webview EXCEPT !.isAIProcessing = FALSE, !.stopClicked = TRUE]
    /\ agents' = IF hostAgent # 0
                   THEN [agents EXCEPT ![hostAgent].abortController = "null"]
                   ELSE agents
    /\ UNCHANGED <<provider, hostAgent, handlers, resetMark>>
    /\ UNCHANGED <<entry, callVars, stopVars, toolVars, adapterVars, sanVars>>

\* webview -> host: { type: 'resetConversation' }; the host answers with a
\* systemMessage
HostReset ==
    /\ entry = "host"
    /\ hostAgent' = DiscardAgent(hostAgent)
    /\ resetMark' = [started |-> {p \in 1..Len(handlers) : handlers[p].pc # "secrets"},
                     agents |-> Len(agents)]
    /\ webview' = Delivered(webview, <<"systemMessage">>)
    /\ UNCHANGED <<provider, agents, handlers>>
    /\ UNCHANGED <<entry, callVars, stopVars, toolVars, adapterVars, sanVars>>

InitHost ==
    /\ entry = "host"
    /\ Idle
    /\ provider \in Providers
    /\ showDiff = "null"
    /\ sanIn = <<>> /\ sanOut = <<>> /\ sanOut2 = <<>> /\ sanPc = "input"

NextHost ==
    \/ UserMessage
    \/ HandlerStart
    \/ HostReceiveCalls
    \/ HostToolDone
    \/ HostReceiveText
    \/ HostProviderError
    \/ HostStop
    \/ HostReset

SpecHost == InitHost /\ [][NextHost]_vars

(***************************************************************************)
(* The file tools of toolFunctions, called directly on one path            *)
(* (src/media/main.js).  The disk holds the file's content or "absent".    *)
(* A fault is an exception thrown by the file-system call of the tool      *)
(* (permissions, a directory in the way) before the file is changed.       *)
(***************************************************************************)
FileContents == {"", "old", "new"}

\* what the import of ./src/diffUtil left in showDiff: null when the module
\* is missing, else a function that opens the view, reports failure by
\* returning false, or throws
DiffCapabilities == {"null", "shows", "returnsFalse", "throws"}

Success == [success |-> TRUE]

Failure(error) == [success |-> FALSE, error |-> error]

existsSync(disk) == disk # "absent"

ReadFile(disk, fault) ==
    IF existsSync(disk) /\ ~fault
      THEN [contents |-> disk]
      ELSE [error |-> "Failed to read file"]

DeleteFileMutant(disk, fault) ==
    IF fault \/ ~existsSync(disk)
      THEN [disk |-> disk, result |-> Failure("err.message")]
      ELSE [disk |-> "absent", result |-> Success]

DeleteFile(disk, fault) ==
    IF existsSync(disk)
      THEN IF fault
             THEN [disk |-> disk, result |-> Failure("err.message")]
             ELSE [disk |-> "absent", result |-> Success]
      ELSE [disk |-> disk, result |-> Failure("File not found")]

ShowsDiffMutant(fileExists, originalContent, contents, capability) ==
    fileExists /\ capability # "null"

ShowsDiff(fileExists, originalContent, contents, capability) ==
    fileExists /\ originalContent # contents /\ capability # "null"

WriteFile(disk, contents, capability, fault) ==
    LET fileExists == existsSync(disk)
        originalContent == IF fileExists THEN disk ELSE ""
    IN  IF fault
          THEN [disk |-> disk, result |-> Failure("err.message"), diffs |-> <<>>]
          ELSE [disk |-> contents,
                result |-> Success,
                diffs |-> IF ShowsDiff(fileExists, originalContent, contents, capability)
                            THEN <<[original |-> originalContent, modified |-> contents]>>
                            ELSE <<>>]

ToolCall(name, contents, fault, r) ==
    [name |-> name, contents |-> contents, before |-> fs, fault |-> fault,
     result |-> r.result, diffs |-> r.diffs]

ToolCallDone(call, disk) ==
    /\ entry = "toolFunctions"
    /\ Len(toolLog) < MaxToolCalls
    /\ fs' = disk
    /\ toolLog' = Append(toolLog, call)
    /\ UNCHANGED <<entry, history, pc, turn, retryCount, calls, idx, functionResponses,
                   subs, requests, outcome, lastCallback, odd, mode, invocations,
                   event, questions, stopVars, hostVars, showDiff, adapterVars, sanVars>>

ReadFileCall ==
    \E fault \in BOOLEAN :
       ToolCallDone(ToolCall("readFile", "", fault,
                             [result |-> ReadFile(fs, fault), diffs |-> <<>>]), fs)

WriteFileCall ==
    \E contents \in FileContents, fault \in BOOLEAN :
       LET r == WriteFile(fs, contents, showDiff, fault)
       IN  ToolCallDone(ToolCall("writeFile", contents, fault, r), r.disk)

DeleteFileCall ==
    \E fault \in BOOLEAN :
       LET r == DeleteFile(fs, fault)
       IN  ToolCallDone(ToolCall("deleteFile", "", fault,
                                 [result |-> r.result, diffs |-> <<>>]), r.disk)

InitTools ==
    /\ entry = "toolFunctions"
    /\ Idle
    /\ provider = "Google Gemini"
    /\ showDiff \in DiffCapabilities
    /\ sanIn = <<>> /\ sanOut = <<>> /\ sanOut2 = <<>> /\ sanPc = "input"

NextTools ==
    \/ ReadFileCall
    \/ WriteFileCall
    \/ DeleteFileCall

SpecTools == InitTools /\ [][NextTools]_vars

(***************************************************************************)
(* The OpenAI-style adapter of MultiProviderAgent: the two conversions,    *)
(* applied to bounded inputs.  JSON text is kept apart from the value it   *)
(* encodes.                                                                *)
(***************************************************************************)
\* JSON.stringify(v)
Stringify(v) == [json |-> v]

\* JSON.parse(s)
Parse(s) == s.json

\* { id: 'call_' + Date.now(), type: 'function', function: { name, arguments } }
ToolCallEntry(name, arguments) ==
    [id |-> "call_now", type |-> "function", name |-> name, arguments |-> arguments]

\* parts.map(p => p.text || JSON.stringify(p))   (joined with '\n')
UserContent(parts) ==
    [i \in 1..Len(parts) |->
        IF parts[i].type = "text" /\ parts[i].text # ""
          THEN [text |-> parts[i].text]
          ELSE Stringify(parts[i])]

\* parts.map(p => p.text || '')   (joined with '\n')
AssistantContent(parts) ==
    [i \in 1..Len(parts) |->
        [text |-> IF parts[i].type = "text" THEN parts[i].text ELSE ""]]

\* const fc = content.parts[0].functionCall; tool_calls: [{ ... fc.name, fc.args }]
AssistantToolCalls(parts) ==
    <<ToolCallEntry(parts[1].name, Stringify(parts[1].args))>>

\* the message pushed for one entry of contents (<<>> when none is pushed)
OpenAIMessage(content) ==
    IF content.role = "user"
      THEN <<[role |-> "user", content |-> UserContent(content.parts), tool_calls |-> <<>>]>>
    ELSE IF content.role = "model"
      THEN IF Len(content.parts) >= 1 /\ content.parts[1].type = "functionCall"
             THEN <<[role |-> "assistant", content |-> <<>>,
                     tool_calls |-> AssistantToolCalls(content.parts)]>>
             ELSE <<[role |-> "assistant", content |-> AssistantContent(content.parts),
                     tool_calls |-> <<>>]>>
    ELSE <<>>

RECURSIVE convertToOpenAIMessages(_)
convertToOpenAIMessages(contents) ==
    IF contents = <<>>
      THEN <<>>
      ELSE OpenAIMessage(Head(contents)) \o convertToOpenAIMessages(Tail(contents))

\* response.choices[0].message, with tool_calls <<>> when the field is missing
convertFromOpenAIResponse(message) ==
    IF Len(message.tool_calls) > 0
      THEN [functionCalls |->
               [i \in 1..Len(message.tool_calls) |->
                   Call(message.tool_calls[i].name, Parse(message.tool_calls[i].arguments))],
            text |-> message.content]
      ELSE [functionCalls |-> <<>>, text |-> message.content]

AdapterCalls == {Call("readFile", "a.js"), Call("writeFile", "b.js")}

AdapterTurns ==
    { UserMessageTurn(1),
      FunctionResponseTurn(<<ResponsePart("readFile", "result")>>),
      ModelTextTurn("answer"),
      Turn("model", <<TextPart("answer", 0), CallPart(Call("readFile", "a.js"))>>) }
    \cup { FunctionCallTurn(cs) :
             cs \in UNION { [1..n -> AdapterCalls] : n \in 1..MaxAdapterLen } }

AdapterContents == UNION { [1..n -> AdapterTurns] : n \in 0..MaxAdapterLen }

AdapterMessages ==
    { [content |-> c, tool_calls |-> tcs] :
        c \in {"", "answer"},
        tcs \in UNION { [1..n -> { ToolCallEntry(fc.name, Stringify(fc.args)) :
                                     fc \in AdapterCalls }] : n \in 0..MaxAdapterLen } }

ConvertToOpenAIMessages ==
    /\ entry = "adapter"
    /\ adapterOut = <<>>
    /\ adapterIn.fn = "_convertToOpenAIMessages"
    /\ adapterOut' = <<convertToOpenAIMessages(adapterIn.arg)>>
    /\ UNCHANGED <<entry, callVars, stopVars, hostVars, toolVars, adapterIn, sanVars>>

ConvertFromOpenAIResponse ==
    /\ entry = "adapter"
    /\ adapterOut = <<>>
    /\ adapterIn.fn = "_convertFromOpenAIResponse"
    /\ adapterOut' = <<convertFromOpenAIResponse(adapterIn.arg)>>
    /\ UNCHANGED <<entry, callVars, stopVars, hostVars, toolVars, adapterIn, sanVars>>

InitAdapter ==
    /\ entry = "adapter"
    /\ history = <<>> /\ pc = "idle" /\ turn = 0 /\ retryCount = 0
    /\ calls = <<>> /\ idx = 1 /\ functionResponses = <<>>
    /\ subs = 0 /\ requests = 0 /\ outcome = "none" /\ lastCallback = "none"
    /\ odd = 0 /\ mode = "dry-run" /\ fs = "old" /\ invocations = <<>>
    /\ event = "none" /\ questions = 0
    /\ apiError = NoError /\ abortController = "null" /\ stopLog = <<>>
    /\ hostAgent = 0 /\ agents = <<>> /\ handlers = <<>>
    /\ resetMark = [started |-> {}, agents |-> 0]
    /\ webview = [isAIProcessing |-> FALSE, stopClicked |-> FALSE, systemShown |-> FALSE]
    /\ provider = "OpenAI"
    /\ showDiff = "null" /\ toolLog = <<>>
    /\ adapterIn \in { [fn |-> "_convertToOpenAIMessages", arg |-> c] : c \in AdapterContents }
                \cup { [fn |-> "_convertFromOpenAIResponse", arg |-> m] : m \in AdapterMessages }
    /\ adapterOut = <<>>
    /\ sanIn = <<>> /\ sanOut = <<>> /\ sanOut2 = <<>> /\ sanPc = "input"

NextAdapter ==
    \/ ConvertToOpenAIMessages
    \/ ConvertFromOpenAIResponse

SpecAdapter == InitAdapter /\ [][NextAdapter]_vars

(***************************************************************************)
(* Properties of the sanitizer                                             *)
(***************************************************************************)
Sanitized == sanPc \in {"once", "twice"}

\* vocabulary of the Conversation Turn invariants
IsValidTurn(msg) == ~msg.nul /\ msg.role # "" /\ msg.hasParts /\ msg.parts # <<>>

IsToolCallTurn(msg) ==
    msg.role = "model" /\ \E i \in DOMAIN msg.parts : msg.parts[i].type = "functionCall"

IsToolResultTurn(msg) ==
    /\ IsValidTurn(msg)
    /\ msg.role = "user"
    /\ \E i \in DOMAIN msg.parts : msg.parts[i].type = "functionResponse"

IsOrphanedCall(h, i) ==
    IsToolCallTurn(h[i]) /\ ~(i < Len(h) /\ IsToolResultTurn(h[i + 1]))

\* every turn is structurally valid, the first is a user turn, and every
\* tool-call turn is immediately followed by a user turn with a tool result
WellFormedHistory(h) ==
    /\ \A i \in 1..Len(h) : IsValidTurn(h[i]) /\ ~IsOrphanedCall(h, i)
    /\ Len(h) > 0 => h[1].role = "user"

\* C4: the sanitizer is idempotent: whenever it returns on a history H, it
\* returns on its own output too, and that second output equals the first.
C4_Idempotent ==
    /\ sanPc = "once" => ~SanitizeThrows(sanOut)
    /\ sanPc = "twice" => sanOut2 = sanOut

\* a history on which the first application really deleted something
C4_Witness ==
    /\ sanPc = "twice"
    /\ Len(sanOut) > 0
    /\ Len(sanOut) < Len(sanIn)

\* C5 (as claimed): every non-empty history whose first turn is not a user
\* turn is sanitized to the empty sequence.
C5_Original ==
    (/\ Sanitized
     /\ Len(sanIn) > 0
     /\ IsValidTurn(sanIn[1])
     /\ sanIn[1].role # "user") => sanOut = <<>>

\* C5 (amended): every history whose first turn is a structurally valid
\* non-user turn that the scan retains (not an orphaned tool call) is
\* sanitized to the empty sequence.
C5_FirstRetainedNotUser ==
    (/\ Sanitized
     /\ Len(sanIn) > 0
     /\ IsValidTurn(sanIn[1])
     /\ sanIn[1].role # "user"
     /\ ~IsOrphanedCall(sanIn, 1)) => sanOut = <<>>

\* a model tool-call turn answered by a tool result opens the history, user
\* turns follow, and the whole history is discarded
C5_Witness ==
    /\ Sanitized
    /\ Len(sanIn) >= 2
    /\ IsToolCallTurn(sanIn[1])
    /\ ~IsOrphanedCall(sanIn, 1)
    /\ sanOut = <<>>

\* C6 (as claimed): a history whose last turn is a model tool-call turn is
\* returned with exactly that trailing turn removed, every other turn kept.
C6_Original ==
    (/\ Sanitized
     /\ Len(sanIn) > 0
     /\ IsValidTurn(sanIn[Len(sanIn)])
     /\ IsToolCallTurn(sanIn[Len(sanIn)])) => sanOut = SubSeq(sanIn, 1, Len(sanIn) - 1)

\* C6 (amended): when the turns before the trailing tool-call turn form a
\* well-formed history, exactly the trailing turn is removed.
C6_TrailingCallRemoved ==
    (/\ Sanitized
     /\ Len(sanIn) > 0
     /\ IsValidTurn(sanIn[Len(sanIn)])
     /\ IsToolCallTurn(sanIn[Len(sanIn)])
     /\ WellFormedHistory(SubSeq(sanIn, 1, Len(sanIn) - 1)))
        => sanOut = SubSeq(sanIn, 1, Len(sanIn) - 1)

\* a non-empty well-formed prefix followed by an unanswered tool-call turn
C6_Witness ==
    /\ Sanitized
    /\ Len(sanIn) > 1
    /\ IsToolCallTurn(sanIn[Len(sanIn)])
    /\ WellFormedHistory(SubSeq(sanIn, 1, Len(sanIn) - 1))
    /\ sanOut = SubSeq(sanIn, 1, Len(sanIn) - 1)

(***************************************************************************)
(* Properties of the loops                                                 *)
(***************************************************************************)
LastTurn(h) == h[Len(h)]

\* turn m is a model turn whose parts are exactly the calls cs, in order
IsCallTurnFor(m, cs) ==
    /\ IsValidTurn(m)
    /\ m.role = "model"
    /\ Len(m.parts) = Len(cs)
    /\ \A i \in 1..Len(cs) :
         /\ m.parts[i].type = "functionCall"
         /\ m.parts[i].name = cs[i].name
         /\ m.parts[i].args = cs[i].args

\* turn u is a user turn of exactly Len(cs) tool results, the i-th named as cs[i]
IsResultTurnFor(u, cs) ==
    /\ IsValidTurn(u)
    /\ u.role = "user"
    /\ Len(u.parts) = Len(cs)
    /\ \A i \in 1..Len(cs) :
         /\ u.parts[i].type = "functionResponse"
         /\ u.parts[i].name = cs[i].name

AppendsOneTurn(h, h2) == Len(h2) = Len(h) + 1 /\ SubSeq(h2, 1, Len(h)) = h

\* the step is taken by the running call, not by a stopGeneration request
StepOfCall == stopLog' = stopLog

C1_Step ==
    /\ (pc = "awaitProvider" /\ pc' = "tools") =>
          /\ Len(calls') >= 1
          /\ AppendsOneTurn(history, history')
          /\ IsCallTurnFor(LastTurn(history'), calls')
    /\ (pc = "tools" /\ pc' = "tools" /\ StepOfCall) =>
          /\ history' = history
          /\ Len(invocations') = Len(invocations) + 1
          /\ Len(invocations') <= Len(calls)
          /\ invocations'[Len(invocations')].name = calls[Len(invocations')].name
    /\ (pc = "tools" /\ pc' # "tools") =>
          /\ pc' = "trim"
          /\ Len(invocations) = Len(calls)
          /\ IsCallTurnFor(LastTurn(history), calls)
          /\ AppendsOneTurn(history, history')
          /\ IsResultTurnFor(LastTurn(history'), calls)

\* C1: in runWithMessage and run, a response with N >= 1 tool calls appends
\* exactly one model turn holding the N calls in order; the tools are then
\* dispatched one at a time in that order, whatever each returns or throws;
\* and exactly one user turn with N results, the i-th named as the i-th
\* call, is appended right after the model turn.
C1_ToolCycleAppendsPair == [][C1_Step]_vars

\* a two-call cycle in which the first tool threw and the second returned
C1_Witness ==
    /\ pc = "trim"
    /\ Len(calls) = 2
    /\ invocations[1].outcome = "throws"
    /\ invocations[2].outcome # "throws"
    /\ IsResultTurnFor(LastTurn(history), calls)

C2_Step ==
    (/\ entry = "CodeReviewerAgent.run"
     /\ pc = "tools"
     /\ idx <= Len(calls)
     /\ calls[idx].name \in {"writeFile", "deleteFile"}
     /\ mode = "dry-run")
    => /\ fs' = fs
       /\ invocations' = invocations
       /\ Len(history') = Len(history) + 2
       /\ SubSeq(history', 1, Len(history)) = history
       /\ IsCallTurnFor(history'[Len(history) + 1], <<calls[idx]>>)
       /\ IsResultTurnFor(LastTurn(history'), <<calls[idx]>>)
       /\ LastTurn(history').parts[1].response = "error_confirmation_required"

\* C2: in CodeReviewerAgent.run, while mode is dry-run a writeFile or
\* deleteFile call does not invoke the tool function (the disk is unchanged)
\* and the history receives for it a tool result whose payload is the
\* confirmation-required error.
C2_DryRunBlocksDestructive == [][C2_Step]_vars

\* a deleteFile call was blocked: the file is still there
C2_Witness ==
    /\ entry = "CodeReviewerAgent.run"
    /\ mode = "dry-run"
    /\ pc = "tools"
    /\ idx > 1
    /\ calls[idx - 1].name = "deleteFile"
    /\ LastTurn(history).parts[1].response = "error_confirmation_required"
    /\ fs = "old"

C3_Step ==
    /\ (pc = "tools" /\ idx <= Len(calls) /\ StepOfCall) =>
          /\ pc' = "tools"
          /\ idx' = idx + 1
          /\ Len(functionResponses') = idx
          /\ Len(invocations') = idx
          /\ invocations'[idx].outcome = "throws" =>
                /\ functionResponses'[idx].type = "functionResponse"
                /\ functionResponses'[idx].name = calls[idx].name
                /\ functionResponses'[idx].response = "error"
    /\ (pc = "tools" /\ idx > Len(calls)) =>
          /\ pc' = "trim"
          /\ LastTurn(history').parts = functionResponses
    /\ pc = "trim" => pc' = "loop"
    /\ (pc = "loop" /\ turn < 15) => (pc' = "awaitProvider" /\ requests' = requests + 1)

\* C3: in runWithMessage a throwing tool (an unregistered name included) does
\* not end the call: an error result is recorded at that call's position, the
\* remaining calls are executed, the results turn is appended and the loop
\* goes on to its next provider request (while the turn budget lasts).
C3_ToolThrowIsRecorded == [][C3_Step]_vars

\* the unregistered first tool threw, the second call ran, and the next
\* provider request is out
C3_Witness ==
    /\ entry = "runWithMessage"
    /\ pc = "awaitProvider"
    /\ Len(calls) = 2
    /\ Len(invocations) = 2
    /\ calls[1].name \notin ToolRegistry
    /\ invocations[1].outcome = "throws"
    /\ LastTurn(history).parts[1].response = "error"
    /\ LastTurn(history).parts[2].response # "error"

\* the Conversation Turn invariants
TurnInvariants(h) ==
    /\ Len(h) > 0
    /\ h[1].role = "user"
    /\ \A i \in 1..Len(h) :
         IsToolCallTurn(h[i]) =>
            /\ i < Len(h)
            /\ h[i + 1].role = "user"
            /\ Len(h[i + 1].parts) = Len(h[i].parts)
            /\ \A k \in 1..Len(h[i].parts) :
                 /\ h[i].parts[k].type = "functionCall"
                 /\ h[i + 1].parts[k].type = "functionResponse"
                 /\ h[i + 1].parts[k].name = h[i].parts[k].name

\* C7: the history of every provider request of runWithMessage starts with a
\* user turn, and each of its tool-call turns is immediately followed by a
\* user turn made of tool results only, as many as the calls and in their order.
C7_RequestHistoryWellFormed ==
    (entry = "runWithMessage" /\ pc = "awaitProvider") => TurnInvariants(history)

\* a request of the second submission, sent after a trim, with a tool cycle in it
C7_Witness ==
    /\ entry = "runWithMessage"
    /\ pc = "awaitProvider"
    /\ subs = 2
    /\ Len(history) = 20
    /\ history[2].role = "user"
    /\ \E i \in 1..Len(history) : IsToolCallTurn(history[i])

\* C8 (as claimed): the roles of the turns of every request of runWithMessage
\* strictly alternate.
C8_RolesAlternate ==
    (entry = "runWithMessage" /\ pc = "awaitProvider") =>
        \A i \in 1..(Len(history) - 1) : history[i].role # history[i + 1].role

\* C9: one call of runWithMessage issues at most 15 provider requests, and
\* after the 15th cycle the call returns normally without a further request.
C9_TurnBudget ==
    /\ [](requests <= 15)
    /\ [][(entry = "runWithMessage" /\ pc = "loop" /\ requests = 15) =>
             (pc' = "idle" /\ outcome' = "returned" /\ requests' = 15)]_vars

\* fifteen tool cycles, then a normal return
C9_Witness ==
    /\ entry = "runWithMessage"
    /\ pc = "idle"
    /\ outcome = "returned"
    /\ requests = 15
    /\ event = "calls"
    /\ IsToolResultTurn(LastTurn(history))

\* C10: a conversation-state error is answered by reset-and-retry at most
\* twice in a row; a state error with that budget used up rejects the call
\* with the state-recovery error and no further request is issued.
C10_StateRetryBudget ==
    /\ [](retryCount <= 2)
    /\ [][(entry = "runWithMessage" /\ pc = "awaitProvider" /\ pc' # "awaitProvider"
            /\ event' = "state") =>
             IF retryCount < 2
             THEN /\ pc' = "loop"
                  /\ retryCount' = retryCount + 1
                  /\ history' = <<UserMessageTurn(subs)>>
             ELSE /\ pc' = "idle"
                  /\ outcome' = "rejected_state"
                  /\ requests' = requests]_vars

\* three state errors in a row: two retries, then the rejection
C10_Witness ==
    /\ entry = "runWithMessage"
    /\ pc = "idle"
    /\ outcome = "rejected_state"
    /\ event = "state"
    /\ requests = 3

(***************************************************************************)
(* State-error recovery, step by step                                      *)
(***************************************************************************)
\* a step of the running call that handles a provider exception
HandlesException == pc = "awaitProvider" /\ apiError'.raised

\* the third request of a call whose first two requests both failed with a
\* state error is being issued
IssuesThirdAttempt ==
    /\ entry = "runWithMessage"
    /\ pc = "loop" /\ requests = 2 /\ retryCount = 2
    /\ pc' = "awaitProvider"

C11_OriginalStep ==
    /\ IssuesThirdAttempt => history' = <<UserMessageTurn(subs)>>
    /\ (entry = "runWithMessage" /\ outcome = "running" /\ outcome' = "rejected_state")
          => requests >= 4

\* C11 as stated: after state errors on the first two attempts the third
\* attempt's history is exactly the reseed turn of the current submission,
\* and the fatal 'could not be recovered' error is raised only when the error
\* has occurred four times (so only after at least four requests).
C11_Original == [][C11_OriginalStep]_vars

C11_Step ==
    /\ IssuesThirdAttempt => history' = <<UserMessageTurn(subs)>>
    /\ (entry = "runWithMessage" /\ HandlesException /\ apiError'.stateMsg
          /\ requests = 3 /\ retryCount = 2)
          => (outcome' = "rejected_state" /\ pc' = "idle" /\ history' = history)
    /\ (entry = "runWithMessage" /\ outcome = "running" /\ outcome' = "rejected_state")
          => (retryCount = 2 /\ requests >= 3 /\ apiError'.stateMsg)

\* C11 (amended): after state errors on the first two attempts of a submission
\* the third attempt's request history is exactly the reseed user turn of the
\* current submission; a state error on that third attempt (the third
\* consecutive occurrence) raises the fatal 'could not be recovered' error
\* without a third reset, and the fatal error is raised in no other way.
C11_ThirdErrorIsFatal == [][C11_Step]_vars

\* the second submission of a session ended with the fatal error on its third
\* request, whose history was the reseed turn of that submission alone
C11_Witness ==
    /\ entry = "runWithMessage"
    /\ outcome = "rejected_state" /\ requests = 3 /\ subs = 2
    /\ history = <<UserMessageTurn(2)>>

(***************************************************************************)
(* Transport errors                                                        *)
(***************************************************************************)
C12_Step ==
    (/\ entry = "runWithMessage"
     /\ HandlesException
     /\ ~apiError'.stateMsg
     /\ (apiError'.fetchFailed \/ apiError'.typeError))
    => (/\ outcome' = "rejected_network"
        /\ pc' = "idle"
        /\ requests' = requests
        /\ history' = history)

\* C12: a provider exception that is a transport error (message has 'fetch
\* failed' or name TypeError) and not a state error ends the call at once with
\* the network rejection, which is not the state-recovery rejection; no
\* request follows and the history stays as it was sent.
C12_TransportNotRetried == [][C12_Step]_vars

\* a call with tool turns in its history was ended by a transport error
C12_Witness ==
    /\ entry = "runWithMessage"
    /\ outcome = "rejected_network"
    /\ apiError.typeError /\ ~apiError.fetchFailed
    /\ Len(history) >= 3

(***************************************************************************)
(* Exceptions are not swallowed                                            *)
(***************************************************************************)
ErrorOutcomes == {"rejected_state", "rejected_network", "rejected_other", "stopped"}

C13_Step ==
    /\ (entry = "runWithMessage" /\ HandlesException)
          => (pc' = "loop" \/ outcome' \in ErrorOutcomes)
    /\ (entry = "runWithMessage" /\ pc = "loop" /\ apiError.raised)
          => (pc' = "awaitProvider" /\ requests' = requests + 1)

\* C13: every provider exception either ends the call with an error or stop
\* notification, or is followed by the retry request it drives; the call never
\* returns normally right after an exception.
C13_NoExceptionSwallowed == [][C13_Step]_vars

(***************************************************************************)
(* Cancellation                                                            *)
(***************************************************************************)
\* stopGeneration ran while a provider request of the running call was in flight
StoppedInFlight ==
    /\ entry = "runWithMessage"
    /\ pc # "idle"
    /\ abortController = "null"
    /\ stopLog # <<>> /\ stopLog[Len(stopLog)] = "awaitProvider"

C14_Step ==
    StoppedInFlight =>
       /\ (pc = "awaitProvider" /\ pc' # pc)
             => (outcome' = "stopped" /\ lastCallback' = "Generation stopped.")
       /\ lastCallback' \in {lastCallback, "Generation stopped."}
       /\ Len(invocations') <= Len(invocations)

\* C14: once stopGeneration has been invoked during an in-flight provider
\* request, that request ends the submission with 'Generation stopped.', no
\* model text is delivered and no tool is dispatched for the submission.
C14_StopAbortsRequest == [][C14_Step]_vars

C15_Step ==
    entry = "runWithMessage" =>
       /\ pc' = "idle" => abortController' = "null"
       /\ (pc = "idle" /\ pc' = "loop" /\ subs >= 1)
             => (/\ history' = Append(history, UserMessageTurn(subs + 1))
                 /\ abortController' = "live"
                 /\ outcome' = "running")
       /\ (pc = "idle" /\ stopLog' # stopLog)
             => UNCHANGED <<history, pc, turn, retryCount, calls, idx, functionResponses,
                            subs, requests, outcome, lastCallback, fs, invocations,
                            abortController>>

\* C15: whenever a call ends the abortController is null; the next call on the
\* same agent starts from the whole retained history plus its own user turn;
\* stopGeneration with no call in flight changes nothing of the agent.
C15_AgentReusable == [][C15_Step]_vars

\* stopGeneration ran between two submissions and the second one is running a
\* request on the history the first one left
C15_Witness ==
    /\ entry = "runWithMessage"
    /\ subs = 2 /\ pc = "awaitProvider" /\ abortController = "live"
    /\ stopLog = <<"idle">>
    /\ Len(history) >= 3 /\ history[1] = UserMessageTurn(1)

(***************************************************************************)
(* History bound and cross-call memory                                     *)
(***************************************************************************)
\* C17: the history of every provider request of runWithMessage has at most
\* 20 turns.
C17_RequestWithinBound ==
    (entry = "runWithMessage" /\ pc = "awaitProvider") => Len(history) <= 20

IsPrefix(h, h2) == Len(h) <= Len(h2) /\ SubSeq(h2, 1, Len(h)) = h

C18_Step ==
    (entry = "runWithMessage" /\ Len(history) <= 20) =>
       \* the first submission only appends, a state-error reset apart
       /\ (subs = 1 /\ pc # "idle" /\ ~(HandlesException /\ apiError'.stateMsg))
             => IsPrefix(history, history')
       \* a text reply is the last turn the first submission appends
       /\ (subs = 1 /\ pc = "awaitProvider" /\ event' = "text")
             => (pc' = "idle" /\ history' = Append(history, ModelTextTurn(lastCallback')))
       \* the second submission appends its user turn to all of it
       /\ (subs = 1 /\ pc = "idle" /\ pc' = "loop")
             => history' = Append(history, UserMessageTurn(2))
       \* and its first request sends exactly that
       /\ (subs = 2 /\ requests = 0 /\ pc = "loop" /\ pc' = "awaitProvider")
             => (history' = history /\ LastTurn(history') = UserMessageTurn(2))

\* C18: with no state-error reset and the history within the bound, every turn
\* the first submission appends (user turn, tool-call and tool-result turns,
\* model text turn) stays in place and in order, the second submission appends
\* its user turn after them, and its first request sends that history unchanged.
C18_SecondRequestRemembers == [][C18_Step]_vars

\* the first request of the second submission carries the first submission's
\* user turn, a tool cycle and the model's text, then the new user turn
C18_Witness ==
    /\ entry = "runWithMessage"
    /\ subs = 2 /\ requests = 1 /\ pc = "awaitProvider"
    /\ Len(history) = 5
    /\ history[1] = UserMessageTurn(1)
    /\ IsToolCallTurn(history[2]) /\ IsToolResultTurn(history[3])
    /\ history[4] = ModelTextTurn("answer")
    /\ history[5] = UserMessageTurn(2)

(***************************************************************************)
(* The host session                                                        *)
(***************************************************************************)
\* the invocations with a provider request or a tool invocation outstanding
Outstanding == {p \in 1..Len(handlers) : handlers[p].pc \in {"awaitProvider", "awaitTool"}}

\* C16: within one host session at most one operation (provider request or
\* tool invocation) is outstanding at any time.
C16_OneOutstanding == entry = "host" => Cardinality(Outstanding) <= 1

\* the submissions whose user text turns are in history h
UserTextSubs(h) ==
    {h[i].parts[1].sub : i \in {k \in 1..Len(h) : h[k].role = "user" /\ h[k].parts[1].type = "text"}}

\* invocation p started running after the last resetConversation was handled
StartedAfterReset(p) == p \notin resetMark.started /\ handlers[p].pc # "secrets"

\* C19: a request of a submission that started after resetConversation was
\* handled is made on an agent created after the reset, and its history holds
\* no user turn of a submission that ran before the reset.
C19_ResetForgets ==
    entry = "host" =>
       \A p \in 1..Len(handlers) :
          (StartedAfterReset(p) /\ handlers[p].pc = "awaitProvider")
             => LET a == handlers[p].agent IN
                /\ a > resetMark.agents
                /\ agents[a].creator \notin resetMark.started
                /\ UserTextSubs(agents[a].history) \cap resetMark.started = {}

\* a reset was handled after a first submission had built a history, and a
\* later submission has a request in flight
C19_Witness ==
    /\ entry = "host"
    /\ resetMark.started = {1} /\ resetMark.agents = 1
    /\ Len(agents[1].history) >= 2
    /\ Len(handlers) = 2 /\ handlers[2].pc = "awaitProvider" /\ handlers[2].agent = 2

\* the provider name matches none of gemini / google / openai / gpt
Unsupported(p) == Keywords(p) \cap {"gemini", "google", "openai", "gpt"} = {}

\* C20: with an unsupported provider name no agent is ever kept or created, no
\* history exists, no request is issued, and every submission ends with the
\* host's load error.
C20_UnsupportedFailsFast ==
    (entry = "host" /\ Unsupported(provider)) =>
       /\ hostAgent = 0
       /\ agents = <<>>
       /\ \A p \in 1..Len(handlers) :
            /\ handlers[p].pc \in {"secrets", "done"}
            /\ handlers[p].requests = 0
            /\ handlers[p].pc = "done" => handlers[p].result = "loadError"

\* two submissions were made with the Anthropic provider and both were
\* answered with the load error
C20_Witness ==
    /\ entry = "host"
    /\ provider = "Anthropic Claude"
    /\ Len(handlers) = 2
    /\ \A p \in 1..2 : handlers[p].pc = "done" /\ handlers[p].result = "loadError"

(***************************************************************************)
(* More properties of the sanitizer                                        *)
(***************************************************************************)
(***************************************************************************)
(* Properties of the file tools                                            *)
(***************************************************************************)
ToolCallStep(name) ==
    /\ Len(toolLog') = Len(toolLog) + 1
    /\ toolLog'[Len(toolLog')].name = name
    /\ ~toolLog'[Len(toolLog')].fault

LastToolCall == toolLog[Len(toolLog)]

NextToolCall == toolLog'[Len(toolLog')]

\* C22: barring a file-system exception, deleteFile on a path where a file
\* exists removes the file and returns {success:true}; on a path where no
\* file exists it returns {success:false, error:"File not found"} and leaves
\* the disk as it was; so a delete right after a successful delete of the
\* same path returns "File not found".
C22_Step ==
    ToolCallStep("deleteFile") =>
       /\ fs # "absent" =>
             /\ fs' = "absent"
             /\ NextToolCall.result = [success |-> TRUE]
       /\ fs = "absent" =>
             /\ fs' = fs
             /\ NextToolCall.result = [success |-> FALSE, error |-> "File not found"]
       /\ ( /\ toolLog # <<>>
            /\ LastToolCall.name = "deleteFile"
            /\ LastToolCall.result = [success |-> TRUE] )
          => NextToolCall.result = [success |-> FALSE, error |-> "File not found"]

C22_DeleteFile == [][C22_Step]_vars

C22_Witness ==
    /\ Len(toolLog) >= 2
    /\ toolLog[1].name = "deleteFile" /\ toolLog[1].result = [success |-> TRUE]
    /\ toolLog[2].name = "deleteFile"
    /\ toolLog[2].result = [success |-> FALSE, error |-> "File not found"]
    /\ fs = "absent"

\* C23: barring a file-system exception, writeFile leaves the file holding
\* exactly the new contents (a readFile of the path returns them) and returns
\* {success:true} whatever the diff capability is or does; it invokes the
\* capability, once and with the prior and the new content, exactly when the
\* file existed before, its prior content differs from the new one, and the
\* capability is available.
C23_Step ==
    ToolCallStep("writeFile") =>
       /\ fs' = NextToolCall.contents
       /\ ReadFile(fs', FALSE) = [contents |-> NextToolCall.contents]
       /\ NextToolCall.result = [success |-> TRUE]
       /\ IF fs # "absent" /\ fs # NextToolCall.contents /\ showDiff # "null"
            THEN NextToolCall.diffs =
                    <<[original |-> fs, modified |-> NextToolCall.contents]>>
            ELSE NextToolCall.diffs = <<>>

C23_WriteFile == [][C23_Step]_vars

C23_Witness ==
    /\ showDiff = "throws"
    /\ Len(toolLog) >= 2
    /\ toolLog[1].name = "writeFile" /\ toolLog[1].before = "old"
    /\ toolLog[1].contents = "new" /\ toolLog[1].diffs # <<>>
    /\ toolLog[1].result = [success |-> TRUE]
    /\ toolLog[2].name = "readFile" /\ toolLog[2].result = [contents |-> "new"]

\* C24: whenever the sanitizer returns, its output is empty, or: the first
\* turn is a user turn, every turn has a role and at least one part, every
\* model turn with a tool-call part is immediately followed by a user turn
\* with a tool-result part, and the last turn is not a tool-call turn.
C24_OutputWellFormed ==
    Sanitized =>
       \/ sanOut = <<>>
       \/ /\ sanOut[1].role = "user"
          /\ \A i \in 1..Len(sanOut) :
                /\ IsValidTurn(sanOut[i])
                /\ IsToolCallTurn(sanOut[i])
                      => (i < Len(sanOut) /\ IsToolResultTurn(sanOut[i + 1]))
          /\ ~IsToolCallTurn(sanOut[Len(sanOut)])

\* a history holding a tool cycle was returned with the cycle in it
C24_Witness ==
    /\ Sanitized
    /\ Len(sanOut) = 3
    /\ IsToolCallTurn(sanOut[2]) /\ IsToolResultTurn(sanOut[3])

RECURSIVE IsSubsequence(_, _)
\* sub is obtained from h by deleting entries
IsSubsequence(sub, h) ==
    IF sub = <<>> THEN TRUE
    ELSE IF h = <<>> THEN FALSE
    ELSE IF Head(sub) = Head(h) THEN IsSubsequence(Tail(sub), Tail(h))
    ELSE IsSubsequence(sub, Tail(h))

C25_Step ==
    /\ sanIn' = sanIn
    /\ Sanitized' => (IsSubsequence(sanOut', sanIn') /\ Len(sanOut') <= Len(sanIn'))

\* C25: the sanitizer only deletes: its output is the input with some entries
\* removed, in the input's order and with every kept entry unmodified, and the
\* input sequence is left as it was.
C25_OnlyDeletes == [][C25_Step]_vars

\* entries were deleted from the middle and the rest was returned in order
C25_Witness ==
    /\ Sanitized
    /\ Len(sanIn) = 3 /\ Len(sanOut) = 2
    /\ sanOut[1] = sanIn[1] /\ sanOut[2] = sanIn[3] /\ sanIn[2] # sanIn[3]

(***************************************************************************)
(* Trimming and tool confirmation in the chat loop                         *)
(***************************************************************************)
\* a tool-result turn of h whose tool-call turn is not the turn before it
HasOrphanedResult(h) ==
    \E i \in 1..Len(h) :
       IsToolResultTurn(h[i]) /\ ~(i > 1 /\ IsToolCallTurn(h[i - 1]))

C26_Step ==
    (entry = "runWithMessage" /\ pc = "trim" /\ Len(history) > 20) =>
       /\ Len(history') <= 20
       /\ history'[1] = history[1]
       /\ \A i, j \in 1..Len(history') : (i # j /\ IsUserTextTurn(history'[i]))
                                            => history'[j] # history'[i]
       /\ IsSubsequence(Tail(history'), LastN(history, 19))
       /\ ~HasOrphanedResult(history')

\* C26: when trimHistory fires in runWithMessage the result has at most 20
\* turns, starts with the seed turn, repeats no turn, and the rest is a
\* subsequence of the 19 most recent turns in which no tool-result turn stands
\* without its tool-call turn.
C26_TrimKeepsPairs == [][C26_Step]_vars

\* C21: in the chat flow a deleteFile call is executed only after the user has
\* affirmatively confirmed it (a confirmation prompt was raised and answered).
C21_DeleteNeedsConfirmation ==
    entry = "runWithMessage" =>
       \A i \in 1..Len(invocations) :
          invocations[i].name = "deleteFile" => questions > 0

C27_Step ==
    (entry = "runWithMessage" /\ pc = "awaitProvider" /\ event' \in {"text", "empty"}) =>
       /\ pc' = "idle" /\ outcome' = "returned"
       /\ requests' = requests /\ subs' = subs
       /\ event' = "empty" => (history' = history /\ lastCallback' = lastCallback)
       /\ event' = "text" =>
             /\ AppendsOneTurn(history, history')
             /\ LastTurn(history').role = "model"
             /\ Len(LastTurn(history').parts) = 1
             /\ LastTurn(history').parts[1].type = "text"
             /\ LastTurn(history').parts[1].text = lastCallback'
             /\ lastCallback' # ""

\* C27: in runWithMessage a text response ends the submission: empty text
\* appends nothing and delivers nothing, other text appends exactly one model
\* text turn and is handed to the message callback; no request follows in
\* that submission and the history is kept for the next one.
C27_TextEndsSubmission == [][C27_Step]_vars

\* the first submission ended with empty text (history untouched), the second
\* one with a delivered answer appended after both user turns
C27_Witness ==
    /\ entry = "runWithMessage"
    /\ subs = 2 /\ pc = "idle" /\ outcome = "returned" /\ event = "text"
    /\ history = <<UserMessageTurn(1), UserMessageTurn(2), ModelTextTurn("answer")>>
    /\ lastCallback = "answer"

(***************************************************************************)
(* The review loop: prompts, mode and completion                           *)
(***************************************************************************)
InReview == entry = "CodeReviewerAgent.run"

\* the texts that contain "Yes", "?" or "apply these fixes"
PromptTexts == {"question", "completeQuestion"}

\* the texts that contain a completion phrase
CompletionTexts == {"complete", "completeQuestion"}

ProceedTurn == Turn("user", <<TextPart("YES. Proceed", 0)>>)

\* the provider's response handled by this step is the text t
ReviewGetsText(t) == InReview /\ pc = "awaitProvider" /\ event' = t

C28_Step ==
    /\ \A t \in PromptTexts : ReviewGetsText(t) =>
          /\ pc' = "awaitAnswer"
          /\ questions' = questions + 1
          /\ lastCallback' = t
          /\ history' = history /\ requests' = requests /\ fs' = fs
    /\ (InReview /\ pc = "awaitAnswer") =>
          \/ /\ pc' = "loop"
             /\ mode' = "apply-fix"
             /\ questions' = questions
             /\ \E i \in {Len(history') - 1, Len(history')} :
                   i >= 1 /\ history'[i] = ProceedTurn
          \/ /\ pc' = "idle" /\ outcome' = "returned"
             /\ requests' = requests /\ fs' = fs /\ mode' = mode
    /\ (InReview /\ pc = "loop") => (pc' = "awaitProvider" /\ requests' = requests + 1)

\* C28: in the review loop a text that looks like a yes/no prompt raises the
\* interaction callback once and waits for it; on yes the mode becomes
\* apply-fix, the proceed turn is appended and the next provider request
\* follows; on no the run ends with no further request and no tool run.
C28_PromptAsksOnce == [][C28_Step]_vars

\* after a yes the run is in apply-fix and its next request is in flight
C28_Witness ==
    /\ InReview
    /\ mode = "apply-fix" /\ questions = 1 /\ pc = "awaitProvider" /\ requests >= 2
    /\ \E i \in 1..Len(history) : history[i] = ProceedTurn

C29_Step ==
    InReview =>
       /\ (pc = "idle" /\ pc' = "loop") => mode' = "dry-run"
       /\ (pc # "idle" /\ mode' # mode)
             => (mode = "dry-run" /\ mode' = "apply-fix" /\ pc = "awaitAnswer" /\ pc' = "loop")
       /\ (Len(invocations') > Len(invocations)
             /\ invocations'[Len(invocations')].name \in {"writeFile", "deleteFile"})
             => (mode = "apply-fix" /\ questions >= 1)
       /\ fs' # fs => mode = "apply-fix"
       /\ (pc = "tools" /\ idx <= Len(calls) /\ mode = "apply-fix"
             /\ calls[idx].name \in {"writeFile", "deleteFile"})
             => (pc' = "idle" \/ Len(invocations') = Len(invocations) + 1)

\* C29: the review run starts in dry-run; the mode changes only from dry-run
\* to apply-fix and only on an affirmative answer; a writeFile or deleteFile
\* is executed only in apply-fix, hence after a confirmation, and in apply-fix
\* it is executed, not blocked.
C29_ModeOnlyOpens == [][C29_Step]_vars

\* a confirmed run deleted the file
C29_Witness ==
    /\ InReview
    /\ mode = "apply-fix" /\ questions = 1 /\ fs = "absent"
    /\ invocations # <<>>
    /\ invocations[Len(invocations)] = [name |-> "deleteFile", outcome |-> "value"]

ReviewStops == pc' = "idle" /\ outcome' = "returned" /\ requests' = requests

C30_OriginalStep == \A t \in CompletionTexts : ReviewGetsText(t) => ReviewStops

\* C30 as stated: every text response with a completion phrase ends the review
\* loop without another provider request.
C30_Original == [][C30_OriginalStep]_vars

C30_Step ==
    /\ (ReviewGetsText("complete") /\ mode = "apply-fix") => ReviewStops
    /\ (ReviewGetsText("complete") /\ mode = "dry-run")
          => (pc' = "loop" /\ LastTurn(history') = ModelTextTurn("complete"))
    /\ ReviewGetsText("completeQuestion") => pc' = "awaitAnswer"

\* C30 (amended): a text with a completion phrase that is not also a yes/no
\* prompt ends the review loop, with no further request, when the mode is
\* apply-fix; in dry-run it is appended as a model turn and the loop goes on;
\* a text that is also a prompt is handled as a prompt.
C30_CompletionStopsInApplyFix == [][C30_Step]_vars

\* a confirmed run ended on a completion phrase
C30_Witness ==
    /\ InReview
    /\ pc = "idle" /\ outcome = "returned" /\ event = "complete" /\ mode = "apply-fix"


(***************************************************************************)
(* Properties of the single-shot loops                                     *)
(***************************************************************************)
InSingleShot == entry \in {"run", "CodeReviewerAgent.run"}

\* C31: a single-shot run (MultiProviderAgent.run, CodeReviewerAgent.run)
\* never issues more provider requests than the hard turn budget, whatever
\* the model answers.
C31_SingleShotTurnBudget == InSingleShot => requests <= MAX_TURNS

\* In a run whose every request so far was answered with a state error no
\* tool was invoked, no text was appended and the last event is the error.
OnlyStateErrorsSoFar ==
    /\ entry = "run"
    /\ event = "state"
    /\ invocations = <<>>
    /\ odd = 0
    /\ history = <<initialPrompt>>

\* C32: in MultiProviderAgent.run a provider that raises a state error on
\* every request is asked at most MAX_RETRIES + 1 times; the run then ends
\* with an error instead of going back to the loop head.
C32_RunStateRetryBudget ==
    OnlyStateErrorsSoFar /\ requests > MAX_RETRIES => pc # "loop"

\* C33: in CodeReviewerAgent.run, when the tool loop over a response with N
\* calls is over, the history ends with one model turn holding the N calls
\* and one user turn holding the N results in the same order; and no tool
\* exception ends the run.
C33_ReviewBatchesCalls ==
    InReview =>
       /\ (pc = "tools" /\ idx > Len(calls)) =>
             /\ Len(history) >= 2
             /\ IsCallTurnFor(history[Len(history) - 1], calls)
             /\ IsResultTurnFor(history[Len(history)], calls)
       /\ outcome # "rejected_tool"

(***************************************************************************)
(* Properties of the provider requests                                     *)
(***************************************************************************)
\* the step issues a provider request from run or runWithMessage
IssuesRequest ==
    /\ entry \in {"runWithMessage", "run"}
    /\ pc = "loop" /\ pc' = "awaitProvider"
    /\ requests' = requests + 1

\* the instruction turn of the running call
InstructionTurn == IF entry = "run" THEN initialPrompt ELSE UserMessageTurn(subs)

\* C34: every provider request of run and runWithMessage carries a
\* non-empty history; when sanitizing the history leaves nothing, the
\* request carries exactly the instruction turn (the initial prompt, or the
\* current submission's user turn), and otherwise the sanitized history.
C34_Step ==
    IssuesRequest =>
       /\ history' # <<>>
       /\ IF validateAndSanitizeHistory(history) = <<>>
            THEN history' = <<InstructionTurn>>
            ELSE history' = validateAndSanitizeHistory(history)

C34_RequestNeverEmpty == [][C34_Step]_vars

\* (the input histories of the loop-head check hold no instruction turn of
\* the running call, so this history can only come from the reseed)
C34_Witness ==
    /\ entry = "runWithMessage"
    /\ pc = "awaitProvider" /\ requests = 1
    /\ history = <<UserMessageTurn(subs)>>
    /\ subs = 2

(***************************************************************************)
(* Properties of the OpenAI-style adapter                                  *)
(***************************************************************************)
Converted(fn) == entry = "adapter" /\ adapterIn.fn = fn /\ adapterOut # <<>>

\* every part of the turn is a tool call
AllCallParts(msg) ==
    /\ msg.role = "model" /\ msg.parts # <<>>
    /\ \A i \in DOMAIN msg.parts : msg.parts[i].type = "functionCall"

\* the i-th tool call of the message is the i-th call part of the turn
SameToolCalls(tcs, parts) ==
    /\ Len(tcs) = Len(parts)
    /\ \A i \in 1..Len(parts) :
         /\ tcs[i].name = parts[i].name
         /\ Parse(tcs[i].arguments) = parts[i].args

\* _convertToOpenAIMessages: a model turn of N tool-call parts becomes an
\* assistant message with the same N tool calls in the same order
ToOpenAILossless ==
    Converted("_convertToOpenAIMessages") =>
       LET contents == adapterIn.arg
           messages == adapterOut[1]
       IN  /\ Len(messages) = Len(contents)
           /\ \A i \in 1..Len(contents) :
                AllCallParts(contents[i]) =>
                   /\ messages[i].role = "assistant"
                   /\ SameToolCalls(messages[i].tool_calls, contents[i].parts)

\* _convertFromOpenAIResponse: a response with N tool_calls becomes N
\* {name, args} function calls in the same order
FromOpenAILossless ==
    Converted("_convertFromOpenAIResponse") =>
       LET tcs == adapterIn.arg.tool_calls
           fcs == adapterOut[1].functionCalls
       IN  /\ Len(fcs) = Len(tcs)
           /\ \A i \in 1..Len(tcs) :
                /\ fcs[i].name = tcs[i].name
                /\ fcs[i].args = Parse(tcs[i].arguments)

\* C35: the OpenAI-style adapter translates tool calls without loss in both
\* directions (names, arguments, number and order).
C35_AdapterLossless == ToOpenAILossless /\ FromOpenAILossless

(***************************************************************************)
(* Order of the turns around a confirmation                                *)
(***************************************************************************)
\* the request in flight is the one issued after an affirmative answer: the
\* last response was a prompt and the mode is open
RequestAfterYes ==
    /\ InReview /\ pc = "awaitProvider"
    /\ event \in PromptTexts
    /\ mode = "apply-fix"

\* C36: the provider request that follows an affirmative answer carries a
\* history whose last turn is the user's "proceed" turn and whose last but
\* one turn is the model's question.
C36_QuestionBeforeAnswer ==
    RequestAfterYes =>
       /\ Len(history) >= 2
       /\ history[Len(history)] = ProceedTurn
       /\ history[Len(history) - 1] = ModelTextTurn(lastCallback)

(***************************************************************************)
(* Last turn of a request's history                                        *)
(***************************************************************************)
\* C37: every provider request of runWithMessage carries a history whose
\* last turn is a user turn, either a user text turn or a tool-result turn,
\* over all submissions, tool cycles, trims and retries of a session.
C37_RequestEndsWithUserTurn ==
    (entry = "runWithMessage" /\ pc = "awaitProvider") =>
       /\ history # <<>>
       /\ LastTurn(history).role = "user"
       /\ IsUserTextTurn(LastTurn(history)) \/ IsToolResultTurn(LastTurn(history))

\* a request of the second submission, issued after a tool cycle, in a
\* session whose history has been trimmed to the limit
C37_Witness ==
    /\ entry = "runWithMessage" /\ pc = "awaitProvider"
    /\ subs = 2 /\ turn >= 2
    /\ Len(history) = MAX_HISTORY_LENGTH
    /\ IsToolResultTurn(LastTurn(history))

(***************************************************************************)
(* Properties of the host's error reporting                                *)
(***************************************************************************)
\* invocation p ends in this step because runWithMessage rejected
Rejects(p) ==
    /\ handlers[p].pc # "done" /\ handlers'[p].pc = "done"
    /\ handlers'[p].result \in {"error_state", "error_network", "error_other"}

\* what invocation p posts in this step
NewPosts(p) ==
    SubSeq(handlers'[p].posts, Len(handlers[p].posts) + 1, Len(handlers'[p].posts))

IsAiResponse(m) ==
    m \in {"aiResponse_text", "aiResponse_retry", "aiResponse_stopped",
           "aiResponse_error", "aiResponse_loadError"}

\* C38: when runWithMessage rejects, the host posts exactly one aiResponse,
\* the error text, and after it aiThinking inactive; the agent object keeps
\* its history; this._agent is set to null when the message is a
\* state-recovery or INVALID_ARGUMENT / 'function call' message (and not also
\* a network or API-key message), and is left alone when the message is
\* neither of the two.
C38_Step ==
    \A p \in 1..Len(handlers) :
       Rejects(p) =>
          LET np == NewPosts(p)
              n == Len(np)
              pats == handlers'[p].patterns
              a == handlers'[p].agent
              inFlight == handlers[p].pc = "awaitProvider"
          IN  /\ n >= 2
              /\ np[n] = "aiThinking_false"
              /\ np[n - 1] = "aiResponse_error"
              /\ Cardinality({k \in 1..n : IsAiResponse(np[k])}) = 1
              /\ inFlight => agents'[a].history = agents[a].history
              /\ ( /\ pats \cap {"stateRecovery", "invalidArgument"} # {}
                   /\ pats \cap {"network", "apiKey"} = {} )
                 => hostAgent' = 0
              /\ pats \cap {"stateRecovery", "invalidArgument"} = {}
                 => IF inFlight THEN hostAgent' = hostAgent ELSE hostAgent' = a

C38_HostReportsRejection == [][C38_Step]_vars

\* a rethrown 'function call' error after one tool cycle: one error
\* response, aiThinking inactive, and the agent is gone
C38_Witness ==
    /\ entry = "host"
    /\ Len(handlers) = 1 /\ handlers[1].pc = "done"
    /\ handlers[1].result = "error_other"
    /\ handlers[1].patterns = {"invalidArgument"}
    /\ handlers[1].requests = 2
    /\ handlers[1].posts = <<"aiThinking_true", "aiResponse_error", "aiThinking_false">>
    /\ hostAgent = 0
    /\ agents[1].history # <<>>

(***************************************************************************)
(* A reset while a submission is in flight                                 *)
(***************************************************************************)
\* invocation p was started before the last resetConversation on an agent
\* that the reset discarded
Discarded(p) ==
    /\ p \in resetMark.started
    /\ handlers[p].agent # 0 /\ handlers[p].agent <= resetMark.agents

\* C39: after a resetConversation, a submission that was in flight on the
\* discarded agent posts no aiResponse to the webview and starts no tool.
C39_Step ==
    \A p \in 1..Len(handlers) :
       Discarded(p) =>
          /\ \A k \in 1..Len(NewPosts(p)) : ~IsAiResponse(NewPosts(p)[k])
          /\ ~(handlers[p].pc = "awaitProvider" /\ handlers'[p].pc = "awaitTool")

C39_ResetSilencesInFlight == [][C39_Step]_vars

(***************************************************************************)
(* The webview's processing state against the host's submissions           *)
(***************************************************************************)
InFlight == {p \in 1..Len(handlers) : handlers[p].pc # "done"}

WebviewIdle == ~webview.isAIProcessing

\* the user only sent messages: no stop click, no reset
OnlySubmissions == ~webview.stopClicked /\ ~webview.systemShown

\* while the webview is idle no submission is in flight in the host
IdleMeansNoneInFlight == (OnlySubmissions /\ WebviewIdle) => InFlight = {}

\* once every submission has ended, for whatever outcome, the webview is idle
AllEndedMeansIdle == (OnlySubmissions /\ InFlight = {}) => WebviewIdle

\* C40: without a stop click, the webview is back in its idle state once the
\* submissions it sent have ended, whatever their outcome, and it is never
\* idle while one of them is still in flight in the host.
C40_WebviewFollowsHost ==
    entry = "host" => (IdleMeansNoneInFlight /\ AllEndedMeansIdle)

====
